---- MODULE Spec2Model ----
(***************************************************************************)
(* A model of the sofa compiler: the code generator of src/codegen.rs, the *)
(* legacy single-expression compiler of src/main.rs, the lexer of          *)
(* src/lexer.rs, and the x86-64 subset their output runs on.               *)
(*                                                                         *)
(* The generators are translated arm by arm; the emitted assembly is a     *)
(* sequence of instruction records, one per writeln!/println! line, which  *)
(* the machine actions then execute.                                       *)
(***************************************************************************)
EXTENDS Integers, Sequences, FiniteSets, TLC

VARIABLES
    mode,      \* which program of the repository runs: "sofa" | "legacy" | "lexer"
    ast,       \* sofa: the Global handed to SofaGenerater::gen (a sequence of FnDef)
    gen,       \* sofa: the SofaGenerater (writer, local, label_id) and its position
    fnlog,     \* sofa: per generated function, the symbol table gen_fn left (history)
    legacy,    \* legacy: the source, the TokenList being built, the Node, the output
    lexer,     \* lexer: the input of tokenize, its Cursor and the tokens collected
    cpu,       \* the machine running the emitted code
    mon        \* what an observer of the run has seen (history)

vars == <<mode, ast, gen, fnlog, legacy, lexer, cpu, mon>>

(***************************************************************************)
(* Bounds of the model.                                                    *)
(***************************************************************************)
\* integer literals of the input programs range over 0..MaxLit
MaxLit == 2
\* the machine stops a run whose operand stack grows past this many words
MaxStackWords == 12

(***************************************************************************)
(* The AST (crate::ast, as used by codegen.rs).                            *)
(***************************************************************************)
Number(v) == [tag |-> "Number", value |-> v]
Local(n) == [tag |-> "Local", name |-> n]
UnOp(k, e) == [tag |-> "UnOp", kind |-> k, expr |-> e]
BinOp(o, l, r) == [tag |-> "BinOp", op |-> o, lhs |-> l, rhs |-> r]
InitE(n, v) == [tag |-> "Init", name |-> n, value |-> v]
Assign(l, r) == [tag |-> "Assign", lhs |-> l, rhs |-> r]
Block(es) == [tag |-> "Block", exprs |-> es]
Stmt(e) == [tag |-> "Stmt", expr |-> e]
Return(e) == [tag |-> "Return", expr |-> e]
Loop(es) == [tag |-> "Loop", body |-> es]
\* else_body is an Option<Block>: a sequence of no or one block
IfElse(c, t, e) == [tag |-> "IfElse", cond |-> c, if_body |-> t, else_body |-> e]
FnCall(n, as) == [tag |-> "FnCall", name |-> n, args |-> as]
Enclosed(e) == [tag |-> "Enclosed", expr |-> e]
FnDef(n, as, b) == [name |-> n, args |-> as, body |-> b]

ExprTags == {"Number", "Local", "UnOp", "BinOp", "FnCall", "Enclosed", "Init", "Assign"}
StmtTags == {"Stmt", "Return", "Loop", "IfElse", "Block"}

RECURSIVE IsExprForm(_)
RECURSIVE AllExprForm(_)
\* e and all its sub-expressions are value expressions (no statement-level form)
IsExprForm(e) ==
    CASE e.tag = "Number" -> TRUE
      [] e.tag = "Local" -> TRUE
      [] e.tag \in {"UnOp", "Enclosed"} -> IsExprForm(e.expr)
      [] e.tag = "BinOp" -> IsExprForm(e.lhs) /\ IsExprForm(e.rhs)
      [] e.tag = "FnCall" -> AllExprForm(e.args)
      [] e.tag = "Init" -> IsExprForm(e.name) /\ IsExprForm(e.value)
      [] e.tag = "Assign" -> IsExprForm(e.lhs) /\ IsExprForm(e.rhs)
      [] OTHER -> FALSE
AllExprForm(es) == es = <<>> \/ (IsExprForm(Head(es)) /\ AllExprForm(Tail(es)))

(***************************************************************************)
(* Emitted assembly: one record per line of text.                          *)
(***************************************************************************)
Ins(op, d, s, n) == [op |-> op, d |-> d, s |-> s, n |-> n]

STACK_SIZE == 8 * 256
ARG_REGS == <<"rdi", "rsi", "rdx", "rcx", "r8", "r9">>

Min(a, b) == IF a < b THEN a ELSE b

\* F of the value of e, with e evaluated once
Let1(e, F(_)) == CHOOSE y \in {F(r) : r \in {e}} : TRUE

(***************************************************************************)
(* SofaGenerater: writer, local, label_id.  ok is FALSE once a panic has   *)
(* unwound the generator; handed and spans are history only: the label     *)
(* counter values handed out so far, and for every node generated the      *)
(* place of its code in the writer.                                        *)
(***************************************************************************)
NewGenerater ==
    [writer |-> <<>>, sunk |-> 0, buf |-> 0,
     local |-> [x \in {} |-> 0], label_id |-> 0,
     ok |-> TRUE, err |-> "", handed |-> <<>>, spans |-> {},
     pos |-> "new", next |-> 1]

\* the text of one line, as the format string of its writeln! prints it
Text(i) ==
    CASE i.op = ".intel_syntax" -> ".intel_syntax " \o i.d
      [] i.op = ".global" -> ".global " \o i.d
      [] i.op = "" -> ""
      [] i.op = "label" -> i.d \o ":"
      [] i.op = "push" -> "    push " \o i.s
      [] i.op = "push_imm" -> "    push " \o ToString(i.n)
      [] i.op = "pop" -> "    pop " \o i.d
      [] i.op = "sub_imm" -> "    sub " \o i.d \o ", " \o ToString(i.n)
      [] i.op = "cmp_imm" -> "    cmp " \o i.d \o ", " \o ToString(i.n)
      [] i.op = "store" -> "    mov [" \o i.d \o "], " \o i.s
      [] i.op = "load" -> "    mov " \o i.d \o ", [" \o i.s \o "]"
      [] i.op \in {"mov", "add", "sub", "imul", "cmp", "movzb"} ->
            "    " \o i.op \o " " \o i.d \o ", " \o i.s
      [] i.op \in {"je", "jmp", "call", "neg", "sete", "setne", "setl", "setle"} ->
            "    " \o i.op \o " " \o i.d
      [] i.op = "idiv" -> "    idiv " \o i.s
      [] OTHER -> "    " \o i.op

\* the capacity of a BufWriter made by BufWriter::new
BufCapacity == 8192

\* the bytes writeln! hands to the BufWriter for one line
LineBytes(i) == Len(Text(i)) + 1

RECURSIVE Buffered(_, _, _)
\* BufWriter::write of lines[k..], one line per write: a line that no longer
\* fits sends the buffered lines to the sink first; sunk counts the lines the
\* sink has received, buf the bytes that wait in the buffer
Buffered(g0, lines, k) ==
    Let1(g0, LAMBDA g :
        IF k > Len(lines) THEN g
        ELSE LET n == LineBytes(lines[k])
                 flushed == IF g.buf + n > BufCapacity
                            THEN [g EXCEPT !.sunk = Len(g.writer), !.buf = 0]
                            ELSE g
             IN  Buffered([flushed EXCEPT !.writer = Append(@, lines[k]),
                                          !.buf = @ + n],
                          lines, k + 1))

\* BufWriter::flush_buf: what waits in the buffer goes to the sink
FlushBuf(g) == [g EXCEPT !.sunk = Len(g.writer), !.buf = 0]

\* writeln!(self.writer, ...) for each of lines
Emit(g0, lines) ==
    Let1(g0, LAMBDA g : IF g.ok THEN Buffered(g, lines, 1) ELSE g)

Panic(g0, msg) ==
    Let1(g0, LAMBDA g : IF g.ok THEN [g EXCEPT !.ok = FALSE, !.err = msg] ELSE g)

\* HashMap::insert
MapInsert(map, k, v) == [x \in DOMAIN map \cup {k} |-> IF x = k THEN v ELSE map[x]]
\* HashMap::entry(k).or_insert(v)
MapOrInsert(map, k, v) == IF k \in DOMAIN map THEN map ELSE MapInsert(map, k, v)
\* HashMap::len
MapLen(map) == Cardinality(DOMAIN map)

\* format!(".L{}_<suffix>", self.label_id)
LabelName(id, suffix) == ".L" \o ToString(id) \o "_" \o suffix

\* a faulty variant: the counter is not advanced
BumpStuck(id) == id
\* self.label_id += 1
Bump(id) == id + 1

\* let label = format!(...); self.label_id += 1;
TakeLabel(g0) ==
    Let1(g0, LAMBDA g : [g EXCEPT !.label_id = Bump(@), !.handed = Append(@, g.label_id)])

\* history: the node e was generated from generator state g0 to g1
Note(e, g0, after) ==
    Let1(after, LAMBDA g1 :
        IF ~g1.ok THEN g1
        ELSE [g1 EXCEPT !.spans = @ \cup
                {[tag |-> e.tag,
                  start |-> Len(g0.writer) + 1,
                  end |-> Len(g1.writer) + 1,
                  aux |-> CASE e.tag = "FnCall" -> Len(e.args)
                            [] e.tag = "IfElse" -> Len(e.else_body)
                            [] e.tag = "Block" -> Len(e.exprs)
                            [] OTHER -> 0,
                  pure |-> IsExprForm(e)]}])

RECURSIVE gen_expr(_, _)
RECURSIVE gen_block(_, _)
RECURSIVE gen_address(_, _)

gen_header(g) ==
    Emit(g, << Ins(".intel_syntax", "noprefix", "", 0),
               Ins(".global", "main", "", 0),
               Ins("", "", "", 0) >>)

gen_prologue(g, name, stack_size) ==
    Emit(g, << Ins("label", name, "", 0),
               Ins("push", "", "rbp", 0),
               Ins("mov", "rbp", "rsp", 0),
               Ins("sub_imm", "rsp", "", stack_size) >>)

gen_epilogue(g) ==
    Emit(g, << Ins("leave", "", "", 0), Ins("ret", "", "", 0) >>)


\* the address of a local: mov rax, rbp / sub rax, offset / push rax
LocalAddress(offset) ==
    << Ins("mov", "rax", "rbp", 0),
       Ins("sub_imm", "rax", "", offset),
       Ins("push", "", "rax", 0) >>

\* pop rdi / pop rax / mov [rax], rdi / push 0
StoreAndVoid ==
    << Ins("pop", "rdi", "", 0),
       Ins("pop", "rax", "", 0),
       Ins("store", "rax", "rdi", 0),
       Ins("push_imm", "", "", 0) >>

gen_Stmt(expr, g) ==
    Emit(gen_expr(expr.expr, g),
         << Ins("pop", "rax", "", 0), Ins("push_imm", "", "", 0) >>)

\* a faulty variant of Return: the epilogue is not emitted
gen_Return_NoEpilogue(expr, g) ==
    Emit(gen_expr(expr.expr, g), << Ins("pop", "rax", "", 0) >>)
gen_Return(expr, g) ==
    gen_epilogue(Emit(gen_expr(expr.expr, g), << Ins("pop", "rax", "", 0) >>))

gen_Loop(expr, g) ==
    LET label == LabelName(g.label_id, "loop")
        g1 == TakeLabel(g)
        g2 == Emit(g1, << Ins("label", label, "", 0) >>)
        g3 == gen_block(expr.body, g2)
    IN  Emit(g3, << Ins("jmp", label, "", 0),
                    Ins("pop", "rax", "", 0),
                    Ins("push_imm", "", "", 1) >>)

CondJump(label) ==
    << Ins("pop", "rax", "", 0),
       Ins("cmp_imm", "rax", "", 0),
       Ins("je", label, "", 0) >>

\* a faulty variant of IfElse: with an else branch, je targets the end label
gen_IfElse_JumpsToEnd(expr, g) ==
    IF expr.else_body # <<>>
    THEN LET label_else == LabelName(g.label_id, "else")
             g1 == TakeLabel(g)
             label_end == LabelName(g1.label_id, "end")
             g2 == TakeLabel(g1)
             g3 == Emit(gen_expr(expr.cond, g2), CondJump(label_end))
             g4 == Emit(gen_block(expr.if_body, g3), << Ins("jmp", label_end, "", 0) >>)
             g5 == Emit(g4, << Ins("label", label_else, "", 0) >>)
             g6 == gen_block(expr.else_body[1], g5)
         IN  Emit(g6, << Ins("label", label_end, "", 0) >>)
    ELSE LET label_end == LabelName(g.label_id, "end")
             g1 == TakeLabel(g)
             g2 == Emit(gen_expr(expr.cond, g1), CondJump(label_end))
             g3 == gen_block(expr.if_body, g2)
         IN  Emit(g3, << Ins("label", label_end, "", 0) >>)
gen_IfElse(expr, g) ==
    IF expr.else_body # <<>>
    THEN LET label_else == LabelName(g.label_id, "else")
             g1 == TakeLabel(g)
             label_end == LabelName(g1.label_id, "end")
             g2 == TakeLabel(g1)
             g3 == Emit(gen_expr(expr.cond, g2), CondJump(label_else))
             g4 == Emit(gen_block(expr.if_body, g3), << Ins("jmp", label_end, "", 0) >>)
             g5 == Emit(g4, << Ins("label", label_else, "", 0) >>)
             g6 == gen_block(expr.else_body[1], g5)
         IN  Emit(g6, << Ins("label", label_end, "", 0) >>)
    ELSE LET label_end == LabelName(g.label_id, "end")
             g1 == TakeLabel(g)
             g2 == Emit(gen_expr(expr.cond, g1), CondJump(label_end))
             g3 == gen_block(expr.if_body, g2)
         IN  Emit(g3, << Ins("label", label_end, "", 0) >>)

RECURSIVE gen_args(_, _, _)
\* for (expr, reg) in args.iter().zip(ARG_REGS), from the i-th pair on
gen_args(args, i, g) ==
    IF i > Min(Len(args), Len(ARG_REGS)) THEN g
    ELSE gen_args(args, i + 1,
            Emit(gen_expr(args[i], g),
                 << Ins("pop", "rax", "", 0), Ins("mov", ARG_REGS[i], "rax", 0) >>))

\* a faulty variant of FnCall: the result is not pushed
gen_FnCall_NoPush(expr, g) ==
    Emit(gen_args(expr.args, 1, g), << Ins("call", expr.name, "", 0) >>)
gen_FnCall(expr, g) ==
    Emit(gen_args(expr.args, 1, g),
         << Ins("call", expr.name, "", 0), Ins("push", "", "rax", 0) >>)

gen_Init(expr, g) ==
    IF expr.name.tag = "Local"
    THEN LET l == MapLen(g.local)
             local == MapOrInsert(g.local, expr.name.name, (l + 1) * 8)
             g1 == Emit([g EXCEPT !.local = local], LocalAddress(local[expr.name.name]))
         IN  Emit(gen_expr(expr.value, g1), StoreAndVoid)
    ELSE Panic(g, "lhs of let expr must be addressable local")

gen_Assign(expr, g) ==
    LET g1 == CASE expr.lhs.tag = "Local" ->
                    IF expr.lhs.name \in DOMAIN g.local
                    THEN Emit(g, LocalAddress(g.local[expr.lhs.name]))
                    ELSE Panic(g, "found undefined local")
                [] expr.lhs.tag = "UnOp" /\ expr.lhs.kind = "Deref" ->
                    gen_expr(expr.lhs.expr, g)
                [] OTHER -> Panic(g, "lhs of assign expr must be addressable local")
    IN  Emit(gen_expr(expr.rhs, g1), StoreAndVoid)

PopRdiRax == << Ins("pop", "rdi", "", 0), Ins("pop", "rax", "", 0) >>
PopRaxRdi == << Ins("pop", "rax", "", 0), Ins("pop", "rdi", "", 0) >>
Compare(setcc) ==
    << Ins("cmp", "rax", "rdi", 0), Ins(setcc, "al", "", 0), Ins("movzb", "rax", "al", 0) >>

\* a faulty variant of match op { ... }: Ge and GeEq pop like Le and LeEq
BinOpCode_GeUnswapped(op) ==
    CASE op = "Add" -> PopRdiRax \o << Ins("add", "rax", "rdi", 0) >>
      [] op = "Sub" -> PopRdiRax \o << Ins("sub", "rax", "rdi", 0) >>
      [] op = "Mul" -> PopRdiRax \o << Ins("imul", "rax", "rdi", 0) >>
      [] op = "Div" -> PopRdiRax \o << Ins("cqo", "", "", 0), Ins("idiv", "", "rdi", 0) >>
      [] op = "Eq" -> PopRdiRax \o Compare("sete")
      [] op = "Neq" -> PopRdiRax \o Compare("setne")
      [] op = "Le" -> PopRdiRax \o Compare("setl")
      [] op = "LeEq" -> PopRdiRax \o Compare("setle")
      [] op = "Ge" -> PopRdiRax \o Compare("setl")
      [] op = "GeEq" -> PopRdiRax \o Compare("setle")
\* the instructions of match op { ... }
BinOpCode(op) ==
    CASE op = "Add" -> PopRdiRax \o << Ins("add", "rax", "rdi", 0) >>
      [] op = "Sub" -> PopRdiRax \o << Ins("sub", "rax", "rdi", 0) >>
      [] op = "Mul" -> PopRdiRax \o << Ins("imul", "rax", "rdi", 0) >>
      [] op = "Div" -> PopRdiRax \o << Ins("cqo", "", "", 0), Ins("idiv", "", "rdi", 0) >>
      [] op = "Eq" -> PopRdiRax \o Compare("sete")
      [] op = "Neq" -> PopRdiRax \o Compare("setne")
      [] op = "Le" -> PopRdiRax \o Compare("setl")
      [] op = "LeEq" -> PopRdiRax \o Compare("setle")
      [] op = "Ge" -> PopRaxRdi \o Compare("setl")
      [] op = "GeEq" -> PopRaxRdi \o Compare("setle")

gen_BinOp(expr, g) ==
    Emit(gen_expr(expr.rhs, gen_expr(expr.lhs, g)),
         BinOpCode(expr.op) \o << Ins("push", "", "rax", 0) >>)

gen_UnOp(expr, g) ==
    CASE expr.kind = "Neg" ->
            Emit(gen_expr(expr.expr, g),
                 << Ins("pop", "rax", "", 0), Ins("neg", "rax", "", 0),
                    Ins("push", "", "rax", 0) >>)
      [] expr.kind = "Ref" -> gen_address(expr.expr, g)
      [] expr.kind = "Deref" ->
            Emit(gen_expr(expr.expr, g),
                 << Ins("pop", "rax", "", 0), Ins("load", "rax", "rax", 0),
                    Ins("push", "", "rax", 0) >>)

gen_Local(expr, g) ==
    Emit(gen_address(expr, g),
         << Ins("pop", "rax", "", 0), Ins("load", "rax", "rax", 0),
            Ins("push", "", "rax", 0) >>)

gen_Number(expr, g) == Emit(g, << Ins("push_imm", "", "", expr.value) >>)

gen_expr(expr, g0) ==
    Let1(g0, LAMBDA g :
        IF ~g.ok THEN g
        ELSE Note(expr, g,
               CASE expr.tag = "Stmt" -> gen_Stmt(expr, g)
                 [] expr.tag = "Block" -> gen_block(expr.exprs, g)
                 [] expr.tag = "Return" -> gen_Return(expr, g)
                 [] expr.tag = "Loop" -> gen_Loop(expr, g)
                 [] expr.tag = "IfElse" -> gen_IfElse(expr, g)
                 [] expr.tag = "FnCall" -> gen_FnCall(expr, g)
                 [] expr.tag = "Init" -> gen_Init(expr, g)
                 [] expr.tag = "Assign" -> gen_Assign(expr, g)
                 [] expr.tag = "BinOp" -> gen_BinOp(expr, g)
                 [] expr.tag = "UnOp" -> gen_UnOp(expr, g)
                 [] expr.tag = "Enclosed" -> gen_expr(expr.expr, g)
                 [] expr.tag = "Local" -> gen_Local(expr, g)
                 [] expr.tag = "Number" -> gen_Number(expr, g)))

RECURSIVE gen_exprs(_, _, _)
\* for expr in block.exprs.iter(), from the i-th on
gen_exprs(exprs, i, g) ==
    IF i > Len(exprs) THEN g ELSE gen_exprs(exprs, i + 1, gen_expr(exprs[i], g))

gen_block(block, g0) ==
    Let1(g0, LAMBDA g :
        IF ~g.ok THEN g ELSE Note(Block(block), g, gen_exprs(block, 1, g)))

gen_address(expr, g0) ==
    Let1(g0, LAMBDA g :
        IF ~g.ok THEN g
        ELSE CASE expr.tag = "Local" ->
                    LET l == MapLen(g.local)
                        local == MapOrInsert(g.local, expr.name, (l + 1) * 8)
                    IN  Emit([g EXCEPT !.local = local], LocalAddress(local[expr.name]))
               [] expr.tag = "UnOp" /\ expr.kind = "Deref" -> gen_expr(expr.expr, g)
               [] OTHER -> Panic(g, "invalid lval"))

RECURSIVE bind_args(_, _, _, _)
\* for (arg, reg) in f.args.iter().zip(ARG_REGS), from the i-th pair on
bind_args(args, i, offset, g0) ==
    Let1(g0, LAMBDA g :
        IF i > Min(Len(args), Len(ARG_REGS)) THEN g
        ELSE bind_args(args, i + 1, offset + 8,
                Emit([g EXCEPT !.local = MapInsert(@, args[i], offset + 8)],
                     << Ins("sub_imm", "rax", "", 8),
                        Ins("store", "rax", ARG_REGS[i], 0) >>)))

FrameSize(f) ==
    IF f.name = "main" THEN STACK_SIZE ELSE ((Len(f.args) + 1) \div 2) * 2 * 8

gen_fn(f, g) ==
    LET g1 == gen_prologue(g, f.name, FrameSize(f))
        g2 == Emit(g1, << Ins("mov", "rax", "rbp", 0) >>)
        g3 == bind_args(f.args, 1, 0, g2)
        g4 == gen_block(f.body, g3)
    IN  gen_epilogue(g4)

RECURSIVE gen_global(_, _, _)
\* for f in global.definitions.iter(), from the i-th on
gen_global(definitions, i, g) ==
    IF i > Len(definitions) THEN g
    ELSE gen_global(definitions, i + 1, gen_fn(definitions[i], g))

\* SofaGenerater::new(..).gen(ast), as one evaluation
gen_ast(definitions) ==
    Emit(gen_global(definitions, 1, gen_header(NewGenerater)), << Ins("", "", "", 0) >>)


(***************************************************************************)
(* The target machine: the x86-64 instructions the generators emit, on     *)
(* a downward-growing stack of 8-byte words.  Code addresses are line      *)
(* numbers of the assembly text.                                           *)
(***************************************************************************)
\* rsp when the runtime calls main: the return address into the runtime is on top
StackTop == 8 * 1024
\* the runtime's frame base when it calls main
CallerRbp == StackTop + 8 * 4
\* the return address into the runtime
ExitAddr == 0
\* what a read of never-written memory may yield
Uninit == {0, 7}

StackFloor == StackTop - 8 - STACK_SIZE - 8 * MaxStackWords

Regs == {"rax", "rdi", "rsi", "rdx", "rcx", "r8", "r9", "rbp", "rsp"}

CpuOff ==
    [status |-> "off", pc |-> 0,
     regs |-> [r \in Regs |-> 0],
     mem |-> [a \in {} |-> 0],
     flags |-> [l |-> 0, r |-> 0]]

\* the machine at the runtime's call of main
CpuAt(entry) ==
    [status |-> "running", pc |-> entry,
     regs |-> [r \in Regs |-> CASE r = "rsp" -> StackTop
                                [] r = "rbp" -> CallerRbp
                                [] OTHER -> 0],
     mem |-> [a \in {StackTop} |-> ExitAddr],
     flags |-> [l |-> 0, r |-> 0]]

\* the lines of code that define label name
LabelDefs(code, name) == {i \in 1..Len(code) : code[i].op = "label" /\ code[i].d = name}
LabelIndex(code, name) == CHOOSE i \in LabelDefs(code, name) : TRUE

Abs(x) == IF x < 0 THEN -x ELSE x
Sign(x) == IF x < 0 THEN -1 ELSE 1
\* idiv: the quotient is truncated towards zero
TruncDiv(a, b) == Sign(a) * Sign(b) * (Abs(a) \div Abs(b))
TruncRem(a, b) == a - b * TruncDiv(a, b)

Write(mem, a, v) == [x \in DOMAIN mem \cup {a} |-> IF x = a THEN v ELSE mem[x]]
Read(mem, a, u) == IF a \in DOMAIN mem THEN mem[a] ELSE u

SetReg(c, r, v) == [c EXCEPT !.regs[r] = v, !.pc = c.pc + 1]
Push(c, v) ==
    IF c.regs.rsp - 8 < StackFloor THEN [c EXCEPT !.status = "overflow"]
    ELSE [c EXCEPT !.regs.rsp = @ - 8, !.mem = Write(c.mem, c.regs.rsp - 8, v),
                   !.pc = c.pc + 1]
\* setcc al: only the low byte of rax is written
SetLow(c, bit) == SetReg(c, "rax", c.regs.rax - (c.regs.rax % 256) + (IF bit THEN 1 ELSE 0))
Jump(c, code, name) ==
    IF LabelDefs(code, name) = {} THEN [c EXCEPT !.status = "fault"]
    ELSE [c EXCEPT !.pc = LabelIndex(code, name)]

\* the machine after the instruction i; u is what uninitialised memory yields
Exec(c, code, i, u) ==
    CASE i.op \in {"label", ".intel_syntax", ".global", ""} -> [c EXCEPT !.pc = @ + 1]
      [] i.op = "push_imm" -> Push(c, i.n)
      [] i.op = "push" -> Push(c, c.regs[i.s])
      [] i.op = "pop" ->
            [c EXCEPT !.regs = [@ EXCEPT ![i.d] = Read(c.mem, c.regs.rsp, u),
                                         !["rsp"] = IF i.d = "rsp" THEN Read(c.mem, c.regs.rsp, u)
                                                    ELSE c.regs.rsp + 8],
                      !.pc = @ + 1]
      [] i.op = "mov" -> SetReg(c, i.d, c.regs[i.s])
      [] i.op = "load" -> SetReg(c, i.d, Read(c.mem, c.regs[i.s], u))
      [] i.op = "store" ->
            [c EXCEPT !.mem = Write(c.mem, c.regs[i.d], c.regs[i.s]), !.pc = @ + 1]
      [] i.op = "sub_imm" -> SetReg(c, i.d, c.regs[i.d] - i.n)
      [] i.op = "add" -> SetReg(c, i.d, c.regs[i.d] + c.regs[i.s])
      [] i.op = "sub" -> SetReg(c, i.d, c.regs[i.d] - c.regs[i.s])
      [] i.op = "imul" -> SetReg(c, i.d, c.regs[i.d] * c.regs[i.s])
      [] i.op = "neg" -> SetReg(c, i.d, 0 - c.regs[i.d])
      [] i.op = "cqo" -> SetReg(c, "rdx", IF c.regs.rax < 0 THEN -1 ELSE 0)
      [] i.op = "idiv" ->
            IF c.regs[i.s] = 0 \/ c.regs.rdx # (IF c.regs.rax < 0 THEN -1 ELSE 0)
            THEN [c EXCEPT !.status = "fault"]
            ELSE [c EXCEPT !.regs = [@ EXCEPT !["rax"] = TruncDiv(c.regs.rax, c.regs[i.s]),
                                              !["rdx"] = TruncRem(c.regs.rax, c.regs[i.s])],
                           !.pc = @ + 1]
      [] i.op = "cmp" ->
            [c EXCEPT !.flags = [l |-> c.regs[i.d], r |-> c.regs[i.s]], !.pc = @ + 1]
      [] i.op = "cmp_imm" ->
            [c EXCEPT !.flags = [l |-> c.regs[i.d], r |-> i.n], !.pc = @ + 1]
      [] i.op = "sete" -> SetLow(c, c.flags.l = c.flags.r)
      [] i.op = "setne" -> SetLow(c, c.flags.l # c.flags.r)
      [] i.op = "setl" -> SetLow(c, c.flags.l < c.flags.r)
      [] i.op = "setle" -> SetLow(c, c.flags.l <= c.flags.r)
      [] i.op = "movzb" -> SetReg(c, i.d, c.regs.rax % 256)
      [] i.op = "je" ->
            IF c.flags.l = c.flags.r THEN Jump(c, code, i.d) ELSE [c EXCEPT !.pc = @ + 1]
      [] i.op = "jmp" -> Jump(c, code, i.d)
      [] i.op = "call" ->
            LET p == Push(c, c.pc + 1)
            IN  IF p.status # "running" THEN p ELSE Jump(p, code, i.d)
      [] i.op = "leave" ->
            [c EXCEPT !.regs = [@ EXCEPT !["rbp"] = Read(c.mem, c.regs.rbp, u),
                                         !["rsp"] = c.regs.rbp + 8],
                      !.pc = @ + 1]
      [] i.op = "ret" ->
            LET to == Read(c.mem, c.regs.rsp, u)
            IN  [c EXCEPT !.regs.rsp = @ + 8, !.pc = to,
                          !.status = IF to = ExitAddr THEN "halted" ELSE "running"]


(***************************************************************************)
(* What an observer of a run records.                                      *)
(*   open     the nodes whose code has been entered and not yet left, with *)
(*            rsp and rbp at entry                                         *)
(*   vals     per node left, the word on top of the stack when it was left *)
(*   condv    per je executed, the condition value in rax                  *)
(*   executed the lines executed so far;  prev: the last one               *)
(*   cmp      the register contents at the last cmp rax, rdi               *)
(*   frames   per call not yet returned from, the caller's rsp and rbp     *)
(*   retok    every ret so far restored its caller's rsp and rbp           *)
(***************************************************************************)
MonInit ==
    [open |-> [s \in {} |-> 0], vals |-> [s \in {} |-> 0], condv |-> [p \in {} |-> 0],
     executed |-> {}, prev |-> 0, cmp |-> <<>>,
     frames |-> << [rsp |-> StackTop + 8, rbp |-> CallerRbp] >>, retok |-> TRUE]

Observe(m, c, c2, i, spans, u) ==
    LET p == c.pc
        closing == {s \in DOMAIN m.open : s.end = p /\ m.open[s].rbp = c.regs.rbp}
        entering == {s \in spans : s.start = p /\ s.end > s.start}
        top == m.frames[Len(m.frames)]
    IN  [open |-> [s \in (DOMAIN m.open \ closing) \cup entering |->
                     IF s \in entering THEN [rsp |-> c.regs.rsp, rbp |-> c.regs.rbp]
                     ELSE m.open[s]],
         vals |-> [s \in DOMAIN m.vals \cup closing |->
                     IF s \in closing THEN Read(c.mem, c.regs.rsp, u) ELSE m.vals[s]],
         condv |-> IF i.op = "je"
                   THEN [q \in DOMAIN m.condv \cup {p} |->
                           IF q = p THEN c.regs.rax ELSE m.condv[q]]
                   ELSE m.condv,
         executed |-> m.executed \cup {p},
         prev |-> p,
         cmp |-> IF i.op = "cmp" THEN << [rax |-> c.regs.rax, rdi |-> c.regs.rdi] >>
                 ELSE m.cmp,
         frames |-> CASE i.op = "call" /\ c2.status = "running" ->
                           Append(m.frames, [rsp |-> c.regs.rsp, rbp |-> c.regs.rbp])
                      [] i.op = "ret" /\ Len(m.frames) > 0 ->
                           SubSeq(m.frames, 1, Len(m.frames) - 1)
                      [] OTHER -> m.frames,
         retok |-> m.retok /\
                   (i.op = "ret" =>
                      /\ Len(m.frames) > 0
                      /\ c2.regs.rsp = top.rsp
                      /\ c2.regs.rbp = top.rbp)]

(***************************************************************************)
(* The legacy compiler of main.rs: TokenList::new, Node::new, gen, main.   *)
(* A source is a sequence of one-character strings.                        *)
(***************************************************************************)
Digit == {"0", "1", "2", "3", "4", "5", "6", "7", "8", "9"}
\* char::is_ascii_whitespace
AsciiWhitespace == {" ", "\t", "\n", "\r", "\f"}

DigitValue(ch) ==
    CASE ch = "0" -> 0 [] ch = "1" -> 1 [] ch = "2" -> 2 [] ch = "3" -> 3 [] ch = "4" -> 4
      [] ch = "5" -> 5 [] ch = "6" -> 6 [] ch = "7" -> 7 [] ch = "8" -> 8 [] ch = "9" -> 9

Reserved(sym) == [kind |-> "Reserved", s |-> sym, n |-> 0]
Num(v) == [kind |-> "Num", s |-> "", n |-> v]
EOF == [kind |-> "EOF", s |-> "", n |-> 0]

\* the operator candidates of the `_` arm, in the order of its if statements
Candidates ==
    << [chars |-> <<"=", "=">>, s |-> "=="], [chars |-> <<"!", "=">>, s |-> "!="],
       [chars |-> <<"<", "=">>, s |-> "<="], [chars |-> <<">", "=">>, s |-> ">="],
       [chars |-> <<"<">>, s |-> "<"], [chars |-> <<">">>, s |-> ">"],
       [chars |-> <<"+">>, s |-> "+"], [chars |-> <<"-">>, s |-> "-"],
       [chars |-> <<"*">>, s |-> "*"], [chars |-> <<"/">>, s |-> "/"],
       [chars |-> <<"(">>, s |-> "("], [chars |-> <<")">>, s |-> ")"] >>

\* source[cur..].starts_with(chars); cur counts from 0
StartsWith(source, cur, chars) ==
    /\ cur + Len(chars) <= Len(source)
    /\ \A k \in 1..Len(chars) : source[cur + k] = chars[k]

RECURSIVE DigitRun(_, _)
\* (cur..).take_while(|&x| x < source.len() && source[x].is_digit(10)).count()
DigitRun(source, cur) ==
    IF cur < Len(source) /\ source[cur + 1] \in Digit THEN 1 + DigitRun(source, cur + 1)
    ELSE 0

RECURSIVE ParseU32(_, _)
\* .parse::<u32>() of a run of digits (the runs of the model stay far below u32::MAX)
ParseU32(digits, acc) ==
    IF digits = <<>> THEN acc
    ELSE ParseU32(Tail(digits), acc * 10 + DigitValue(Head(digits)))

RECURSIVE MatchCandidates(_, _, _)
\* the if statements of the `_` arm from the k-th on: each is tried, at the
\* cursor the earlier ones left
MatchCandidates(source, t0, k) ==
    Let1(t0, LAMBDA t :
        IF k > Len(Candidates) THEN t
        ELSE IF StartsWith(source, t.cur, Candidates[k].chars)
             THEN MatchCandidates(source,
                      [tokens |-> Append(t.tokens, Reserved(Candidates[k].s)),
                       cur |-> t.cur + Len(Candidates[k].chars)],
                      k + 1)
             ELSE MatchCandidates(source, t, k + 1))

\* one iteration of `while cur < source.len()`
ScanOne(source, t) ==
    LET ch == source[t.cur + 1]
    IN  CASE ch \in AsciiWhitespace -> [t EXCEPT !.cur = @ + 1]
          [] ch \in Digit ->
                LET l == DigitRun(source, t.cur)
                IN  [tokens |-> Append(t.tokens,
                                       Num(ParseU32(SubSeq(source, t.cur + 1, t.cur + l), 0))),
                     cur |-> t.cur + l]
          [] OTHER -> MatchCandidates(source, t, 1)

\* Node { kind, lhs, rhs }: lhs and rhs are Option<Box<Node>>, no or one node
Node(kind, lhs, rhs) == [kind |-> kind, n |-> 0, lhs |-> <<lhs>>, rhs |-> <<rhs>>]
NumNode(v) == [kind |-> "Num", n |-> v, lhs |-> <<>>, rhs |-> <<>>]

\* a parser result: the node, the TokenList's head after it, and whether it panicked
Parsed(node, head) == [ok |-> TRUE, node |-> node, head |-> head]
ParsePanic(head) == [ok |-> FALSE, node |-> NumNode(0), head |-> head]

\* TokenList::consume: does the token at head equal Reserved(sym)
At(tokens, head, sym) == tokens[head + 1] = Reserved(sym)

RECURSIVE add(_, _)
RECURSIVE add_loop(_, _)
RECURSIVE mul_loop(_, _)

primary(tokens, head) ==
    IF At(tokens, head, "(")
    THEN Let1(add(tokens, head + 1), LAMBDA inner :
             IF ~inner.ok THEN inner
             ELSE IF At(tokens, inner.head, ")") THEN Parsed(inner.node, inner.head + 1)
             ELSE ParsePanic(inner.head))
    ELSE IF tokens[head + 1].kind = "Num"
         THEN Parsed(NumNode(tokens[head + 1].n), head + 1)
         ELSE ParsePanic(head)

unary(tokens, head) ==
    IF At(tokens, head, "+") THEN primary(tokens, head + 1)
    ELSE IF At(tokens, head, "-")
         THEN Let1(primary(tokens, head + 1), LAMBDA r :
                  IF ~r.ok THEN r ELSE Parsed(Node("Sub", NumNode(0), r.node), r.head))
         ELSE primary(tokens, head)

mul_loop(tokens, res0) ==
    Let1(res0, LAMBDA res :
        IF ~res.ok THEN res
        ELSE IF At(tokens, res.head, "*")
             THEN Let1(unary(tokens, res.head + 1), LAMBDA r :
                      IF ~r.ok THEN r
                      ELSE mul_loop(tokens, Parsed(Node("Mul", res.node, r.node), r.head)))
        ELSE IF At(tokens, res.head, "/")
             THEN Let1(unary(tokens, res.head + 1), LAMBDA r :
                      IF ~r.ok THEN r
                      ELSE mul_loop(tokens, Parsed(Node("Div", res.node, r.node), r.head)))
        ELSE res)

mul(tokens, head) == mul_loop(tokens, unary(tokens, head))

add_loop(tokens, res0) ==
    Let1(res0, LAMBDA res :
        IF ~res.ok THEN res
        ELSE IF At(tokens, res.head, "+")
             THEN Let1(mul(tokens, res.head + 1), LAMBDA r :
                      IF ~r.ok THEN r
                      ELSE add_loop(tokens, Parsed(Node("Add", res.node, r.node), r.head)))
        ELSE IF At(tokens, res.head, "-")
             THEN Let1(mul(tokens, res.head + 1), LAMBDA r :
                      IF ~r.ok THEN r
                      ELSE add_loop(tokens, Parsed(Node("Sub", res.node, r.node), r.head)))
        ELSE res)

add(tokens, head) == add_loop(tokens, mul(tokens, head))

RECURSIVE relational_loop(_, _)
relational_loop(tokens, res0) ==
    Let1(res0, LAMBDA res :
        IF ~res.ok THEN res
        ELSE IF At(tokens, res.head, "<=")
             THEN Let1(add(tokens, res.head + 1), LAMBDA r :
                      IF ~r.ok THEN r
                      ELSE relational_loop(tokens, Parsed(Node("LeEq", res.node, r.node), r.head)))
        ELSE IF At(tokens, res.head, ">=")
             THEN Let1(add(tokens, res.head + 1), LAMBDA r :
                      IF ~r.ok THEN r
                      ELSE relational_loop(tokens, Parsed(Node("LeEq", r.node, res.node), r.head)))
        ELSE IF At(tokens, res.head, "<")
             THEN Let1(add(tokens, res.head + 1), LAMBDA r :
                      IF ~r.ok THEN r
                      ELSE relational_loop(tokens, Parsed(Node("Le", res.node, r.node), r.head)))
        ELSE IF At(tokens, res.head, ">")
             THEN Let1(add(tokens, res.head + 1), LAMBDA r :
                      IF ~r.ok THEN r
                      ELSE relational_loop(tokens, Parsed(Node("Le", r.node, res.node), r.head)))
        ELSE res)

relational(tokens, head) == relational_loop(tokens, add(tokens, head))

RECURSIVE equality_loop(_, _)
equality_loop(tokens, res0) ==
    Let1(res0, LAMBDA res :
        IF ~res.ok THEN res
        ELSE IF At(tokens, res.head, "==")
             THEN Let1(relational(tokens, res.head + 1), LAMBDA r :
                      IF ~r.ok THEN r
                      ELSE equality_loop(tokens, Parsed(Node("Eq", res.node, r.node), r.head)))
        ELSE IF At(tokens, res.head, "!=")
             THEN Let1(relational(tokens, res.head + 1), LAMBDA r :
                      IF ~r.ok THEN r
                      ELSE equality_loop(tokens, Parsed(Node("Neq", res.node, r.node), r.head)))
        ELSE res)

equality(tokens, head) == equality_loop(tokens, relational(tokens, head))

\* Node::new = Node::expr = Node::equality, on a fresh TokenList (head 0)
NodeNew(tokens) == equality(tokens, 0)

\* a faulty variant of match node.kind { ... }: Div without cqo
LegacyOpCode_NoCqo(kind) ==
    CASE kind = "Add" -> << Ins("add", "rax", "rdi", 0) >>
      [] kind = "Sub" -> << Ins("sub", "rax", "rdi", 0) >>
      [] kind = "Mul" -> << Ins("imul", "rax", "rdi", 0) >>
      [] kind = "Div" -> << Ins("idiv", "", "rdi", 0) >>
      [] kind = "Eq" -> Compare("sete")
      [] kind = "Neq" -> Compare("setne")
      [] kind = "Le" -> Compare("setl")
      [] kind = "LeEq" -> Compare("setle")
\* the instructions of match node.kind { ... }
LegacyOpCode(kind) ==
    CASE kind = "Add" -> << Ins("add", "rax", "rdi", 0) >>
      [] kind = "Sub" -> << Ins("sub", "rax", "rdi", 0) >>
      [] kind = "Mul" -> << Ins("imul", "rax", "rdi", 0) >>
      [] kind = "Div" -> << Ins("cqo", "", "", 0), Ins("idiv", "", "rdi", 0) >>
      [] kind = "Eq" -> Compare("sete")
      [] kind = "Neq" -> Compare("setne")
      [] kind = "Le" -> Compare("setl")
      [] kind = "LeEq" -> Compare("setle")

RECURSIVE LegacyGen(_)
\* fn gen(node: Node): the lines it prints
LegacyGen(node) ==
    IF node.kind = "Num" THEN << Ins("push_imm", "", "", node.n) >>
    ELSE LegacyGen(node.lhs[1]) \o LegacyGen(node.rhs[1])
         \o PopRdiRax \o LegacyOpCode(node.kind) \o << Ins("push", "", "rax", 0) >>

\* fn main(): everything it prints for node
LegacyMain(node) ==
    << Ins(".intel_syntax", "noprefix", "", 0), Ins(".global", "main", "", 0),
       Ins("label", "main", "", 0) >>
    \o LegacyGen(node)
    \o << Ins("pop", "rax", "", 0), Ins("ret", "", "", 0) >>

(***************************************************************************)
(* The lexer of lexer.rs: Cursor and tokenize.  An input is a sequence of   *)
(* characters, each a string; a character takes Utf8Len bytes of the input.*)
(***************************************************************************)
MaxInput == 3

\* const EOF_CHAR: char = '\0'
EOF_CHAR == "NUL"
\* a character outside ASCII: two bytes of UTF-8
EAcute == "e-acute"
Utf8Len(ch) == IF ch = EAcute THEN 2 ELSE 1

RECURSIVE ByteLen(_)
\* str::len: the length in bytes
ByteLen(chars) == IF chars = <<>> THEN 0 ELSE Utf8Len(Head(chars)) + ByteLen(Tail(chars))

Lower == {"a", "b", "c", "d", "e", "f", "g", "h", "i", "j", "k", "l", "m",
          "n", "o", "p", "q", "r", "s", "t", "u", "v", "w", "x", "y", "z"}
Upper == {"A", "B", "C", "D", "E", "F", "G", "H", "I", "J", "K", "L", "M",
          "N", "O", "P", "Q", "R", "S", "T", "U", "V", "W", "X", "Y", "Z"}
is_id_head(c) == c \in Lower \cup Upper \cup {"_"}
is_id_body(c) == c \in Lower \cup Upper \cup Digit \cup {"_"}

KEYWORDS ==
    << [token |-> <<"f", "n">>, kind |-> "Fn"],
       [token |-> <<"l", "e", "t">>, kind |-> "Let"],
       [token |-> <<"i", "f">>, kind |-> "If"],
       [token |-> <<"e", "l", "s", "e">>, kind |-> "Else"],
       [token |-> <<"l", "o", "o", "p">>, kind |-> "Loop"],
       [token |-> <<"r", "e", "t", "u", "r", "n">>, kind |-> "Return"],
       [token |-> <<"t", "r", "u", "e">>, kind |-> "True"],
       [token |-> <<"f", "a", "l", "s", "e">>, kind |-> "False"] >>

\* Some(kind) is <<kind>>, None is <<>>
to_keyword(id) ==
    LET hits == {k \in 1..Len(KEYWORDS) : KEYWORDS[k].token = id}
    IN  IF hits = {} THEN <<>> ELSE << KEYWORDS[CHOOSE k \in hits : TRUE].kind >>

\* the one-character arms of token(), but '/'
Punctuation ==
    [c \in {"=", "+", "-", "*", "%", "&", "|", "^", "<", ">", "(", ")", "[", "]",
            "{", "}", ",", ".", "!", "?", ":", ";"} |->
        CASE c = "=" -> "Eq" [] c = "+" -> "Plus" [] c = "-" -> "Minus" [] c = "*" -> "Star"
          [] c = "%" -> "Percent" [] c = "&" -> "And" [] c = "|" -> "Or" [] c = "^" -> "Caret"
          [] c = "<" -> "Lt" [] c = ">" -> "Gt" [] c = "(" -> "LParen" [] c = ")" -> "RParen"
          [] c = "[" -> "LBlanket" [] c = "]" -> "RBlanket" [] c = "{" -> "LBrace"
          [] c = "}" -> "RBrace" [] c = "," -> "Comma" [] c = "." -> "Dot" [] c = "!" -> "Bang"
          [] c = "?" -> "Question" [] c = ":" -> "Colon" [] c = ";" -> "Semi"]

\* Cursor { pos, last, chars }: chars has yielded the first i characters
Cursor_new == [pos |-> 0, last |-> 0, i |-> 0]

\* self.chars.peek().unwrap_or(&EOF_CHAR)
next(src, c) == IF c.i < Len(src) THEN src[c.i + 1] ELSE EOF_CHAR
\* self.pos += 1; self.chars.next()
bump(src, c) == [c EXCEPT !.pos = @ + 1, !.i = Min(@ + 1, Len(src))]
\* a faulty variant of consume: pos is advanced, the characters are not taken
consume_NotTaken(src, c, target) == [c EXCEPT !.pos = @ + ByteLen(target)]
\* self.pos += target.len(); self.chars.by_ref().take(target.len())
consume(src, c, target) ==
    [c EXCEPT !.pos = @ + ByteLen(target), !.i = Min(@ + ByteLen(target), Len(src))]
is_eof(src, c) == next(src, c) = EOF_CHAR
\* let res = (self.last, self.pos); self.last = self.pos; res
update_pos(c) == [c EXCEPT !.last = c.pos]
PosOf(c) == << c.last, c.pos >>

RECURSIVE TakeWhile(_, _, _)
\* self.chars.clone().take_while(p).collect(), p being membership in set
TakeWhile(src, i, set) ==
    IF i < Len(src) /\ src[i + 1] \in set
    THEN << src[i + 1] >> \o TakeWhile(src, i + 1, set)
    ELSE <<>>

RECURSIVE SkipWhitespace(_, _)
\* while self.next().is_ascii_whitespace() { self.bump(); }
SkipWhitespace(src, c0) ==
    Let1(c0, LAMBDA c :
        IF next(src, c) \in AsciiWhitespace THEN SkipWhitespace(src, bump(src, c)) ELSE c)

RECURSIVE SkipLine(_, _)
\* while !self.is_eof() && self.next() != &'\n' { self.bump(); }
SkipLine(src, c0) ==
    Let1(c0, LAMBDA c :
        IF ~is_eof(src, c) /\ next(src, c) # "\n" THEN SkipLine(src, bump(src, c)) ELSE c)

Tok(kind, value, c) == [kind |-> kind, value |-> value, pos |-> PosOf(c)]
Lexed(kind, value, c0) ==
    Let1(c0, LAMBDA c :
        [ok |-> TRUE, tok |-> Tok(kind, value, c), cursor |-> update_pos(c),
         err |-> [ch |-> "", at |-> 0]])
\* panic!("unexpected {:?} at {}", unknown, current_pos)
LexPanic(unknown, current_pos, c) ==
    [ok |-> FALSE, tok |-> Tok("Whitespace", <<>>, c), cursor |-> c,
     err |-> [ch |-> unknown, at |-> current_pos]]

\* Cursor::token
token(src, c) ==
    LET current_pos == c.pos
        ch == next(src, c)
    IN  CASE ch \in AsciiWhitespace -> Lexed("Whitespace", <<>>, SkipWhitespace(src, c))
          [] is_id_head(ch) ->
                LET id == TakeWhile(src, c.i, Lower \cup Upper \cup Digit \cup {"_"})
                    kw == to_keyword(id)
                IN  IF kw # <<>> THEN Lexed(kw[1], <<>>, consume(src, c, id))
                    ELSE Lexed("Ident", id, consume(src, c, id))
          [] ch \in Digit ->
                LET num == TakeWhile(src, c.i, Digit)
                IN  Lexed("Number", num, consume(src, c, num))
          [] ch = "/" ->
                LET c1 == bump(src, c)
                IN  IF next(src, c1) = "/"
                    THEN Lexed("Whitespace", <<>>, bump(src, SkipLine(src, c1)))
                    ELSE Lexed("Slash", <<>>, c1)
          [] ch \in DOMAIN Punctuation -> Lexed(Punctuation[ch], <<>>, bump(src, c))
          [] OTHER -> LexPanic(ch, current_pos, c)

\* the characters the inputs are made of
Alphabet == {"i", "f", "_", "1", " ", "\n", "/", "=", "#", EOF_CHAR, EAcute}

RECURSIVE Strings(_, _)
\* the strings over the set of at most n characters
Strings(set, n) ==
    IF n = 0 THEN {<<>>}
    ELSE Strings(set, n - 1) \cup {Append(s, ch) : s \in Strings(set, n - 1), ch \in set}

\* short inputs, and inputs that open with a line comment
LexInputs ==
    Strings(Alphabet, MaxInput)
    \cup {<<"/", "/">> \o body \o <<"\n">> \o tail :
             body \in Strings({"i", "/", EAcute, EOF_CHAR}, MaxInput - 2),
             tail \in Strings({"i", "#", " ", EAcute}, MaxInput - 1)}

LexerIdle ==
    [input |-> <<>>, cursor |-> Cursor_new, tokens |-> <<>>, status |-> "idle",
     err |-> [ch |-> "", at |-> 0]]
LexerOn(input) == [LexerIdle EXCEPT !.input = input, !.status = "run"]

(***************************************************************************)
(* The input programs of the sofa generator.                               *)
(***************************************************************************)
Lits == 0..MaxLit
N(v) == Number(v)
X == Local("x")
Y == Local("y")
Z == Local("z")
Add(l, r) == BinOp("Add", l, r)

\* fn add(a, b) { return a + b; }
FnAdd == FnDef("add", <<"a", "b">>, << Return(Add(Local("a"), Local("b"))) >>)
\* fn id(a) { return a; }
FnId == FnDef("id", <<"a">>, << Return(Local("a")) >>)
\* fn zero() { return 0; }
FnZero == FnDef("zero", <<>>, << Return(N(0)) >>)
\* fn sum(a, b, c, d, e, f) { return a + b + c + d + e + f; }
FnSum ==
    FnDef("sum", <<"a", "b", "c", "d", "e", "f">>,
          << Return(Add(Add(Add(Add(Add(Local("a"), Local("b")), Local("c")), Local("d")),
                            Local("e")), Local("f"))) >>)
Main(body) == FnDef("main", <<>>, body)

BinOpKinds == {"Add", "Sub", "Mul", "Div", "Eq", "Neq", "Le", "LeEq", "Ge", "GeEq"}
CmpKinds == {"Eq", "Neq", "Le", "LeEq", "Ge", "GeEq"}

\* fn main() { return a <op> b; }
CmpVals == {-1, 300} \cup Lits
CmpProg(op, a, b) == << Main(<< Return(BinOp(op, N(a), N(b))) >>) >>
CmpProgs == {CmpProg(op, a, b) : op \in CmpKinds, a \in CmpVals, b \in CmpVals}

\* fn main() { let x = 1; return add(e1, e2); }
ArgForms ==
    {N(v) : v \in Lits}
    \cup {X, Add(N(1), N(2)), FnCall("id", << N(2) >>), Enclosed(N(1)), UnOp("Neg", N(1))}
CallProg(e1, e2) ==
    << FnAdd, FnId, Main(<< InitE(X, N(1)), Return(FnCall("add", << e1, e2 >>)) >>) >>
\* fn main() { return sum(1, 2, 3, 4, 5, six); }
SumProg(six) ==
    << FnSum, Main(<< Return(FnCall("sum", << N(1), N(2), N(3), N(4), N(5), six >>)) >>) >>
CallProgs ==
    {CallProg(e1, e2) : e1 \in ArgForms, e2 \in ArgForms}
    \cup {SumProg(N(6)), SumProg(BinOp("Div", N(6), N(1)))}

\* fn main() { let x = 1; let y = &x; e; return 0; }
Operands == {N(2), X}
ExprForms ==
    Operands
    \cup {UnOp("Neg", e) : e \in Operands}
    \cup {UnOp("Ref", X), UnOp("Ref", UnOp("Deref", Y)), UnOp("Deref", Y),
          UnOp("Neg", UnOp("Neg", N(1))), UnOp("Deref", UnOp("Ref", X))}
    \cup {BinOp(op, a, b) : op \in BinOpKinds, a \in Operands, b \in Operands}
    \cup {Add(Add(N(1), X), BinOp("Mul", X, N(2))),
          BinOp("Div", N(1), N(0)),
          Add(FnCall("id", << X >>), Enclosed(BinOp("Sub", N(2), N(1))))}
    \cup {FnCall("id", << e >>) : e \in Operands}
    \cup {FnCall("zero", <<>>), FnCall("add", << FnCall("id", << N(1) >>), Add(X, N(1)) >>)}
    \cup {Enclosed(e) : e \in Operands}
    \cup {InitE(Z, e) : e \in Operands}
    \cup {Assign(X, e) : e \in Operands}
    \cup {Assign(UnOp("Deref", Y), e) : e \in Operands}
    \cup {Assign(X, Add(X, N(1))), InitE(Z, Assign(X, N(2))),
          InitE(Z, FnCall("id", << InitE(X, N(2)) >>))}
ExprProg(e) ==
    << FnAdd, FnId, FnZero,
       Main(<< InitE(X, N(1)), InitE(Y, UnOp("Ref", X)), Stmt(e), Return(N(0)) >>) >>
ExprProgs == {ExprProg(e) : e \in ExprForms}

Eq(l, r) == BinOp("Eq", l, r)

\* functions whose Return is reached, with the value returned to the runtime
RetCases ==
    \* fn main() { loop { return n; } }
    {[prog |-> << Main(<< Loop(<< Return(N(n)) >>) >>) >>, ret |-> n] : n \in Lits}
    \* fn main() { 1; 2; { 3; loop { 4; if 1 { 5; return n; } } } }
    \cup {[prog |-> << Main(<< Stmt(N(1)), Stmt(N(2)),
                              Block(<< Stmt(N(3)),
                                       Loop(<< Stmt(N(4)),
                                               IfElse(N(1), << Stmt(N(5)), Return(N(n)) >>,
                                                      <<>>) >>) >>) >>) >>,
           ret |-> n] : n \in Lits}
    \* fn main() { let x = 0; loop { x = x + 1; if x == n { return x; } } }
    \cup {[prog |-> << Main(<< InitE(X, N(0)),
                              Loop(<< Stmt(Assign(X, Add(X, N(1)))),
                                      IfElse(Eq(X, N(n)), << Return(X) >>, <<>>) >>) >>) >>,
           ret |-> n] : n \in Lits \ {0}}
    \* fn pick(a) { loop { if a { return 1; } else { loop { return 2; } } } }
    \* fn main() { loop { loop { return pick(n); } } }
    \cup {[prog |-> << FnDef("pick", <<"a">>,
                             << Loop(<< IfElse(Local("a"), << Return(N(1)) >>,
                                               << << Loop(<< Return(N(2)) >>) >> >>) >>) >>),
                       Main(<< Loop(<< Loop(<< Return(FnCall("pick", << N(n) >>)) >>) >>) >>) >>,
           ret |-> IF n = 0 THEN 2 ELSE 1] : n \in Lits}
RetProgs == {c.prog : c \in RetCases}

\* fn main() { let x = 5; if c { x = 1; } [else { x = 2; }] return x; }
IfProg(c, else_body) ==
    << Main(<< InitE(X, N(5)),
               IfElse(c, << Stmt(Assign(X, N(1))) >>, else_body),
               Return(X) >>) >>
\* fn main() { if c { return 1; } return 2; }
IfReturnProg(c) == << Main(<< IfElse(c, << Return(N(1)) >>, <<>>), Return(N(2)) >>) >>
Conds == {N(v) : v \in Lits} \cup {UnOp("Neg", N(1)), Eq(N(1), N(2)), Enclosed(N(1))}
IfProgs ==
    {IfProg(c, e) : c \in Conds, e \in {<<>>, << << Stmt(Assign(X, N(2))) >> >>, << <<>> >>}}
    \cup {IfReturnProg(c) : c \in Conds}
    \* fn main() { if c { if d { return 1; } else { return 2; } } else { } return 3; }
    \cup {<< Main(<< IfElse(N(c), << IfElse(N(d), << Return(N(1)) >>, << << Return(N(2)) >> >>) >>,
                            << <<>> >>),
                     Return(N(3)) >>) >> : c \in Lits, d \in Lits}

\* blocks of n statements, and loops that never return
RECURSIVE Stmts(_)
Stmts(n) == IF n = 0 THEN <<>> ELSE Append(Stmts(n - 1), Stmt(N(n)))
BlockProgs ==
    \* fn main() { { 1; ...; n; } return 0; }
    {<< Main(<< Block(Stmts(n)), Return(N(0)) >>) >> : n \in 0..(MaxLit + 1)}
    \* fn main() { loop { 1; ...; n; } }
    \cup {<< Main(<< Loop(Stmts(n)) >>) >> : n \in 0..MaxLit}
    \* fn main() { loop { if 0 { } } }
    \cup {<< Main(<< Loop(<< IfElse(N(0), <<>>, <<>>) >>) >>) >>}

\* translation units of several functions with locals
LocalProgs ==
    { \* fn main() { let x = 1; let y = 2; x = 3; return x + y; }
      << Main(<< InitE(X, N(1)), InitE(Y, N(2)), Stmt(Assign(X, N(3))), Return(Add(X, Y)) >>) >>,
      \* fn f(a, b) { let x = a; let y = b; return x + y; } fn main() { return f(1, 2); }
      << FnDef("f", <<"a", "b">>,
               << InitE(X, Local("a")), InitE(Y, Local("b")), Return(Add(X, Y)) >>),
         Main(<< Return(FnCall("f", << N(1), N(2) >>)) >>) >>,
      \* fn f() { let x = 1; return x; } fn g(p) { let x = 2; return p; }
      \* fn main() { return g(7); }
      << FnDef("f", <<>>, << InitE(X, N(1)), Return(X) >>),
         FnDef("g", <<"p">>, << InitE(X, N(2)), Return(Local("p")) >>),
         Main(<< Return(FnCall("g", << N(7) >>)) >>) >>,
      \* fn f(a) { let x = 1; return x; } fn main() { let y = 2; let x = 3; return y; }
      << FnDef("f", <<"a">>, << InitE(X, N(1)), Return(X) >>),
         Main(<< InitE(Y, N(2)), InitE(X, N(3)), Return(Y) >>) >> }


(***************************************************************************)
(* The input sources of the legacy compiler: expression trees, written out *)
(* with the parentheses that precedence and left-associativity require.    *)
(***************************************************************************)
Lit(v) == [op |-> "lit", v |-> v, l |-> <<>>, r |-> <<>>]
T(op, a, b) == [op |-> op, v |-> 0, l |-> <<a>>, r |-> <<b>>]
Minus(a) == [op |-> "neg", v |-> 0, l |-> <<a>>, r |-> <<>>]
Plus(a) == [op |-> "pos", v |-> 0, l |-> <<a>>, r |-> <<>>]

ArithOps == {"+", "-", "*", "/"}
CmpOps == {"==", "!=", "<", "<=", ">", ">="}

Prec(op) ==
    CASE op \in {"==", "!="} -> 1
      [] op \in {"<", "<=", ">", ">="} -> 2
      [] op \in {"+", "-"} -> 3
      [] op \in {"*", "/"} -> 4
      [] op \in {"neg", "pos"} -> 5
      [] op = "lit" -> 6

OpChars(op) ==
    CASE op = "==" -> <<"=", "=">> [] op = "!=" -> <<"!", "=">>
      [] op = "<=" -> <<"<", "=">> [] op = ">=" -> <<">", "=">>
      [] OTHER -> <<op>>

DigitChar(d) ==
    CASE d = 0 -> "0" [] d = 1 -> "1" [] d = 2 -> "2" [] d = 3 -> "3" [] d = 4 -> "4"
      [] d = 5 -> "5" [] d = 6 -> "6" [] d = 7 -> "7" [] d = 8 -> "8" [] d = 9 -> "9"

RECURSIVE Decimal(_)
Decimal(v) == IF v < 10 THEN <<DigitChar(v)>> ELSE Decimal(v \div 10) \o <<DigitChar(v % 10)>>

RECURSIVE Render(_, _, _)
\* the text of tree t where an operand of precedence at least min is expected
Render(t, min, sp) ==
    LET body ==
          CASE t.op = "lit" -> Decimal(t.v)
            [] t.op = "neg" -> <<"-">> \o Render(t.l[1], 6, sp)
            [] t.op = "pos" -> <<"+">> \o Render(t.l[1], 6, sp)
            [] OTHER -> Render(t.l[1], Prec(t.op), sp) \o sp \o OpChars(t.op) \o sp
                        \o Render(t.r[1], Prec(t.op) + 1, sp)
    IN  IF Prec(t.op) < min THEN <<"(">> \o body \o <<")">> ELSE body

\* the quotient of a by b truncated towards zero, as arithmetic defines it
RefQuot(a, b) ==
    CHOOSE q \in -Abs(a)..Abs(a) :
        \E r \in -Abs(b)..Abs(b) :
            /\ a = q * b + r
            /\ Abs(r) < Abs(b)
            /\ (r = 0 \/ (r < 0) = (a < 0))

RECURSIVE RefEval(_)
\* the value of the tree as arithmetic defines it; ok is FALSE where it divides by zero
RefEval(t) ==
    IF t.op = "lit" THEN [ok |-> TRUE, v |-> t.v]
    ELSE IF t.op \in {"neg", "pos"}
    THEN LET a == RefEval(t.l[1])
         IN  [ok |-> a.ok, v |-> IF t.op = "neg" THEN 0 - a.v ELSE a.v]
    ELSE LET a == RefEval(t.l[1])
             b == RefEval(t.r[1])
             bit(c) == IF c THEN 1 ELSE 0
         IN  IF ~a.ok \/ ~b.ok \/ (t.op = "/" /\ b.v = 0) THEN [ok |-> FALSE, v |-> 0]
             ELSE [ok |-> TRUE,
                   v |-> CASE t.op = "+" -> a.v + b.v
                           [] t.op = "-" -> a.v - b.v
                           [] t.op = "*" -> a.v * b.v
                           [] t.op = "/" -> RefQuot(a.v, b.v)
                           [] t.op = "==" -> bit(a.v = b.v)
                           [] t.op = "!=" -> bit(a.v # b.v)
                           [] t.op = "<" -> bit(a.v < b.v)
                           [] t.op = "<=" -> bit(a.v <= b.v)
                           [] t.op = ">" -> bit(a.v > b.v)
                           [] t.op = ">=" -> bit(a.v >= b.v)]

LegacyLits == 1..MaxLit
Arith0 == {Lit(v) : v \in LegacyLits}
Arith1 == {T(o, a, b) : o \in ArithOps, a \in Arith0, b \in Arith0}
Arith2 == {T(o, a, b) : o \in ArithOps, a \in Arith1, b \in Arith0}
          \cup {T(o, a, b) : o \in ArithOps, a \in Arith0, b \in Arith1}
Signed == {Minus(a) : a \in Arith0 \cup {T("-", Lit(1), Lit(2))}}
          \cup {Plus(a) : a \in Arith0}
          \cup {T(o, Minus(Lit(MaxLit + 1)), Lit(2)) : o \in ArithOps}
          \cup {T(o, Lit(MaxLit + 1), Minus(Lit(2))) : o \in ArithOps}
Long == {T(o, Lit(10 + MaxLit), Lit(3)) : o \in ArithOps}
        \cup {T("*", T("+", Lit(1), Lit(2)), T("-", Lit(10), Lit(MaxLit)))}
ArithTrees == Arith0 \cup Arith1 \cup Arith2 \cup Signed \cup Long

CmpOperands == {Lit(v) : v \in Lits} \cup {T("-", Lit(1), Lit(2))}
CmpTrees == {T(o, a, b) : o \in CmpOps, a \in CmpOperands, b \in CmpOperands}

Space == << " " >>
Sources ==
    {[tree |-> t, sp |-> <<>>] : t \in ArithTrees \cup CmpTrees}
    \cup {[tree |-> t, sp |-> Space] : t \in Arith1}

RECURSIVE ToExpr(_)
\* the Expr of an arithmetic tree
ToExpr(t) ==
    CASE t.op = "lit" -> N(t.v)
      [] t.op = "neg" -> UnOp("Neg", ToExpr(t.l[1]))
      [] t.op = "pos" -> Enclosed(ToExpr(t.l[1]))
      [] t.op = "+" -> BinOp("Add", ToExpr(t.l[1]), ToExpr(t.r[1]))
      [] t.op = "-" -> BinOp("Sub", ToExpr(t.l[1]), ToExpr(t.r[1]))
      [] t.op = "*" -> BinOp("Mul", ToExpr(t.l[1]), ToExpr(t.r[1]))
      [] t.op = "/" -> BinOp("Div", ToExpr(t.l[1]), ToExpr(t.r[1]))
\* fn main() { return t; }
ArithProg(t) == << Main(<< Return(ToExpr(t)) >>) >>
ArithProgs == {ArithProg(t) : t \in ArithTrees}
TreeOf(prog) == CHOOSE t \in ArithTrees : ArithProg(t) = prog

\* the long unit: LongFns functions of LongLen statements each, so that its
\* text is longer than the BufWriter's capacity
LongFns == 12
LongLen == 24

\* the constructs gen_expr and gen_address panic on
Rejected ==
    {Assign(N(1), N(2)),                \* 1 = 2
     UnOp("Ref", N(1)),                 \* &1
     Assign(X, N(1)),                   \* x = 1, x never declared
     InitE(N(1), N(2))}                 \* let 1 = 2

AbortProgs ==
    \* fn main() { 1; ...; n; <rejected>; return 0; }
    {<< Main(Stmts(n) \o << Stmt(r), Return(N(0)) >>) >> : n \in 0..MaxLit, r \in Rejected}
    \* fn id(a) { return a; } fn main() { <rejected>; }
    \cup {<< FnId, Main(<< Stmt(r) >>) >> : r \in Rejected}
    \* fn f1() { 1; ...; 1; } ... fn fn() { 1; ...; 1; } fn main() { 1 = 2; }
    \cup {[k \in 1..LongFns |-> FnDef("f" \o ToString(k), <<>>,
                                      [i \in 1..LongLen |-> Stmt(N(1))])]
           \o << Main(<< Stmt(Assign(N(1), N(2))) >>) >>}

\* fn last(a, b, c, d, e, f, g) { return g; }
FnLast ==
    FnDef("last", <<"a", "b", "c", "d", "e", "f", "g">>, << Return(Local("g")) >>)
\* the arguments 1, 2, ..., n
Numbers(n) == [i \in 1..n |-> N(i)]
ManyArgProgs ==
    { \* fn main() { return sum(1, 2, 3, 4, 5, 6, 7); }
      << FnSum, Main(<< Return(FnCall("sum", Numbers(7))) >>) >>,
      \* fn main() { return last(1, 2, 3, 4, 5, 6, 7); }
      << FnLast, Main(<< Return(FnCall("last", Numbers(7))) >>) >>,
      \* fn main() { return sum(1, 2, 3, 4, 5, 6); }
      << FnSum, Main(<< Return(FnCall("sum", Numbers(6))) >>) >> }

\* (x), x in parentheses
PX == Enclosed(X)
EnclosedProgs ==
    { \* fn main() { let x = 1; (x) = 2; return x; }
      << Main(<< InitE(X, N(1)), Stmt(Assign(PX, N(2))), Return(X) >>) >>,
      \* fn main() { let x = 1; return *&(x); }
      << Main(<< InitE(X, N(1)), Return(UnOp("Deref", UnOp("Ref", PX))) >>) >>,
      \* fn main() { let (x) = 1; return x; }
      << Main(<< InitE(PX, N(1)), Return(X) >>) >>,
      \* fn main() { let x = 1; let y = &x; (*y) = 2; return (x) + ((1)); }
      << Main(<< InitE(X, N(1)), InitE(Y, UnOp("Ref", X)),
                 Stmt(Assign(Enclosed(UnOp("Deref", Y)), N(2))),
                 Return(Add(PX, Enclosed(Enclosed(N(1))))) >>) >>,
      \* fn main() { let x = 1; let y = &x; *(y) = 2; return (x + 1); }
      << Main(<< InitE(X, N(1)), InitE(Y, UnOp("Ref", X)),
                 Stmt(Assign(UnOp("Deref", Enclosed(Y)), N(2))),
                 Return(Enclosed(Add(X, N(1)))) >>) >> }

AssignFirstProgs ==
    { \* fn main() { x = 1; return x; }
      << Main(<< Stmt(Assign(X, N(1))), Return(X) >>) >>,
      \* fn f(a) { x = a; return x; } fn main() { return f(2); }
      << FnDef("f", <<"a">>, << Stmt(Assign(X, Local("a"))), Return(X) >>),
         Main(<< Return(FnCall("f", << N(2) >>)) >>) >>,
      \* fn f() { let x = 1; return x; } fn main() { x = 2; return x; }
      << FnDef("f", <<>>, << InitE(X, N(1)), Return(X) >>),
         Main(<< Stmt(Assign(X, N(2))), Return(X) >>) >> }

FrameProgs ==
    { \* fn f() { let x = 1; return x; } fn main() { return f(); }
      << FnDef("f", <<>>, << InitE(X, N(1)), Return(X) >>),
         Main(<< Return(FnCall("f", <<>>)) >>) >>,
      \* fn f(a) { let x = a + 1; return x; } fn main() { return f(1); }
      << FnDef("f", <<"a">>, << InitE(X, Add(Local("a"), N(1))), Return(X) >>),
         Main(<< Return(FnCall("f", << N(1) >>)) >>) >>,
      \* fn f(a, b) { let x = a + b; return x; } fn main() { return f(1, 2); }
      << FnDef("f", <<"a", "b">>, << InitE(X, Add(Local("a"), Local("b"))), Return(X) >>),
         Main(<< Return(FnCall("f", << N(1), N(2) >>)) >>) >> }

Programs == CmpProgs \cup CallProgs \cup ExprProgs \cup RetProgs \cup IfProgs
            \cup EnclosedProgs \cup AssignFirstProgs \cup FrameProgs
            \cup BlockProgs \cup LocalProgs \cup ArithProgs \cup AbortProgs
            \cup ManyArgProgs

LegacyIdle ==
    [tree |-> Lit(0), source |-> <<>>, pos |-> "idle", cur |-> 0, tokens |-> <<>>,
     node |-> NumNode(0), out |-> <<>>]

LegacyOn(src) ==
    [tree |-> src.tree, source |-> Render(src.tree, 1, src.sp), pos |-> "lex", cur |-> 0,
     tokens |-> <<>>, node |-> NumNode(0), out |-> <<>>]

(***************************************************************************)
(* The runs: one of the two compilers produces assembly text, which is     *)
(* assembled and run.                                                      *)
(***************************************************************************)
Code == IF mode = "sofa" THEN gen.writer ELSE legacy.out

InitSofa ==
    /\ mode = "sofa"
    /\ ast \in Programs
    /\ gen = NewGenerater
    /\ fnlog = <<>>
    /\ legacy = LegacyIdle
    /\ lexer = LexerIdle
    /\ cpu = CpuOff
    /\ mon = MonInit

InitLegacy ==
    /\ mode = "legacy"
    /\ ast = <<>>
    /\ gen = [NewGenerater EXCEPT !.pos = "idle"]
    /\ fnlog = <<>>
    /\ \E src \in Sources : legacy = LegacyOn(src)
    /\ lexer = LexerIdle
    /\ cpu = CpuOff
    /\ mon = MonInit

Init == InitSofa \/ InitLegacy

\* gen: self.gen_header()
GenHeader ==
    /\ mode = "sofa" /\ gen.pos = "new"
    /\ gen' = [gen_header(gen) EXCEPT !.pos = "fns"]
    /\ UNCHANGED <<lexer, mode, ast, fnlog, legacy, cpu, mon>>

\* gen_global: self.gen_fn(f) for the next definition
GenFn ==
    /\ mode = "sofa" /\ gen.pos = "fns" /\ gen.next <= Len(ast)
    /\ \E g \in {gen_fn(ast[gen.next], gen)} :
           /\ gen' = [g EXCEPT !.next = @ + 1,
                               !.pos = IF g.ok THEN "fns" ELSE "panicked"]
           /\ fnlog' = Append(fnlog, [name |-> ast[gen.next].name, local |-> g.local,
                                      ok |-> g.ok])
    /\ UNCHANGED <<lexer, mode, ast, legacy, cpu, mon>>

\* gen: the closing writeln!, after the last definition
GenFinish ==
    /\ mode = "sofa" /\ gen.pos = "fns" /\ gen.next > Len(ast)
    /\ gen' = [Emit(gen, << Ins("", "", "", 0) >>) EXCEPT !.pos = "done"]
    /\ UNCHANGED <<lexer, mode, ast, fnlog, legacy, cpu, mon>>

\* TokenList::new: one iteration of its while loop
TokScan ==
    /\ mode = "legacy" /\ legacy.pos = "lex" /\ legacy.cur < Len(legacy.source)
    /\ LET t == ScanOne(legacy.source, [tokens |-> legacy.tokens, cur |-> legacy.cur])
       IN  legacy' = [legacy EXCEPT !.tokens = t.tokens, !.cur = t.cur]
    /\ UNCHANGED <<lexer, mode, ast, gen, fnlog, cpu, mon>>

\* TokenList::new: the loop is left, EOF is pushed
TokEnd ==
    /\ mode = "legacy" /\ legacy.pos = "lex" /\ legacy.cur >= Len(legacy.source)
    /\ legacy' = [legacy EXCEPT !.tokens = Append(@, EOF), !.pos = "parse"]
    /\ UNCHANGED <<lexer, mode, ast, gen, fnlog, cpu, mon>>

\* main: let node = Node::new(&mut tokens)
Parse ==
    /\ mode = "legacy" /\ legacy.pos = "parse"
    /\ LET r == NodeNew(legacy.tokens)
       IN  legacy' = IF r.ok THEN [legacy EXCEPT !.node = r.node, !.pos = "gen"]
                     ELSE [legacy EXCEPT !.pos = "panicked"]
    /\ UNCHANGED <<lexer, mode, ast, gen, fnlog, cpu, mon>>

\* main: the header, gen(node), pop rax, ret
LegacyEmit ==
    /\ mode = "legacy" /\ legacy.pos = "gen"
    /\ legacy' = [legacy EXCEPT !.out = LegacyMain(legacy.node), !.pos = "done"]
    /\ UNCHANGED <<lexer, mode, ast, gen, fnlog, cpu, mon>>

\* the SofaGenerater goes out of scope, after gen has returned or while its
\* panic unwinds: dropping the BufWriter flushes it
GenDrop ==
    /\ mode = "sofa" /\ gen.pos \in {"done", "panicked"}
    /\ gen' = [FlushBuf(gen) EXCEPT !.pos = IF gen.ok THEN "closed" ELSE "unwound"]
    /\ UNCHANGED <<lexer, mode, ast, fnlog, legacy, cpu, mon>>

\* the text the sink of the generator has received
Sink == SubSeq(gen.writer, 1, gen.sunk)

\* the emitted text is assembled and the runtime calls main
Start ==
    /\ cpu.status = "off"
    /\ IF mode = "sofa" THEN gen.pos = "closed" ELSE legacy.pos = "done"
    /\ LabelDefs(Code, "main") # {}
    /\ cpu' = CpuAt(LabelIndex(Code, "main"))
    /\ UNCHANGED <<lexer, mode, ast, gen, fnlog, legacy, mon>>

\* the machine executes the instruction at pc
Step ==
    /\ cpu.status = "running"
    /\ \E u \in Uninit :
         IF cpu.pc \in 1..Len(Code)
         THEN LET c2 == Exec(cpu, Code, Code[cpu.pc], u)
              IN  /\ cpu' = c2
                  /\ mon' = Observe(mon, cpu, c2, Code[cpu.pc], gen.spans, u)
         ELSE /\ cpu' = [cpu EXCEPT !.status = "fault"]
              /\ mon' = mon
    /\ UNCHANGED <<lexer, mode, ast, gen, fnlog, legacy>>

Next ==
    \/ GenHeader \/ GenFn \/ GenFinish \/ GenDrop
    \/ TokScan \/ TokEnd \/ Parse \/ LegacyEmit
    \/ Start \/ Step

Spec == Init /\ [][Next]_vars

\* the sofa compiler alone; the machine, once started, keeps executing the
\* emitted program for as long as it can
NextSofa == GenHeader \/ GenFn \/ GenFinish \/ GenDrop \/ Start \/ Step
FairSpec == InitSofa /\ [][NextSofa]_vars /\ WF_vars(Step)

\* tokenize: the iterator yields cursor.token(), and collect() keeps it unless
\* it is Whitespace
LexToken ==
    /\ mode = "lexer" /\ lexer.status = "run" /\ ~is_eof(lexer.input, lexer.cursor)
    /\ LET r == token(lexer.input, lexer.cursor)
       IN  lexer' = IF r.ok
                    THEN [lexer EXCEPT !.cursor = r.cursor,
                                       !.tokens = IF r.tok.kind # "Whitespace"
                                                  THEN Append(@, r.tok) ELSE @]
                    ELSE [lexer EXCEPT !.status = "panicked", !.err = r.err]
    /\ UNCHANGED <<mode, ast, gen, fnlog, legacy, cpu, mon>>

\* tokenize: cursor.is_eof(), the iterator ends and the Vec is returned
LexReturn ==
    /\ mode = "lexer" /\ lexer.status = "run" /\ is_eof(lexer.input, lexer.cursor)
    /\ lexer' = [lexer EXCEPT !.status = "done"]
    /\ UNCHANGED <<mode, ast, gen, fnlog, legacy, cpu, mon>>

InitLexer ==
    /\ mode = "lexer"
    /\ ast = <<>>
    /\ gen = [NewGenerater EXCEPT !.pos = "idle"]
    /\ fnlog = <<>>
    /\ legacy = LegacyIdle
    /\ \E input \in LexInputs : lexer = LexerOn(input)
    /\ cpu = CpuOff
    /\ mon = MonInit

NextLexer == LexToken \/ LexReturn
SpecLexer == InitLexer /\ [][NextLexer]_vars
\* the iterator of tokenize is driven by collect() until it ends
FairLexer == InitLexer /\ [][NextLexer]_vars /\ WF_vars(NextLexer)

\* the characters of the inputs handed to TokenList::new on its own
TokenChars == {"1", " ", "=", "!", "<", "+", "a"}

InitTokens ==
    /\ mode = "legacy"
    /\ ast = <<>>
    /\ gen = [NewGenerater EXCEPT !.pos = "idle"]
    /\ fnlog = <<>>
    /\ \E input \in Strings(TokenChars, MaxInput) :
           legacy = [LegacyIdle EXCEPT !.source = input, !.pos = "lex"]
    /\ lexer = LexerIdle
    /\ cpu = CpuOff
    /\ mon = MonInit

\* TokenList::new alone, on any string; the loop keeps iterating and the
\* function returns when the loop is left
NextTokens == TokScan \/ TokEnd
SpecTokens == InitTokens /\ [][NextTokens]_vars /\ WF_vars(NextTokens)

(***************************************************************************)
(* Properties.                                                             *)
(***************************************************************************)
Halted == cpu.status = "halted"
Running == cpu.status = "running"
Spans == gen.spans
MaxOf(S) == CHOOSE x \in S : \A y \in S : y <= x

\* the node s is open in the frame the machine is in
OpenHere(s) == s \in DOMAIN mon.open /\ mon.open[s].rbp = cpu.regs.rbp

\* where the code of the node that starts at line a and ends before line limit ends
InnerEnd(a, limit) == MaxOf({t.end : t \in {t \in Spans : t.start = a /\ t.end <= limit}})

RECURSIVE ArgStart(_, _)
\* the first line of the i-th argument of the call s; the call's last lines are
\* pop rax / mov reg, rax / call / push rax
ArgStart(s, i) ==
    IF i = 1 THEN s.start ELSE InnerEnd(ArgStart(s, i - 1), s.end - 4) + 2
ArgSpan(s, i) ==
    CHOOSE t \in Spans :
        t.start = ArgStart(s, i) /\ t.end = InnerEnd(ArgStart(s, i), s.end - 4)
CallLine(s) == s.end - 2

\* C1: at the call instruction of every FnCall with at most six arguments the
\* i-th argument register holds the value the i-th argument expression
\* evaluated to; and main's add(x, y) returns x + y to the runtime.
C1_ArgumentRegistersHoldArguments ==
    /\ \A s \in Spans :
         (s.tag = "FnCall" /\ s.aux <= Len(ARG_REGS) /\ Running /\ cpu.pc = CallLine(s)
            /\ OpenHere(s))
         => \A i \in 1..s.aux :
                /\ ArgSpan(s, i) \in DOMAIN mon.vals
                /\ cpu.regs[ARG_REGS[i]] = mon.vals[ArgSpan(s, i)]
    /\ (Halted /\ mode = "sofa" /\ ast \in CallProgs /\ ast[1] = FnAdd)
         => LET s == CHOOSE t \in Spans : t.tag = "FnCall" /\ t.aux = 2
            IN  cpu.regs.rax = mon.vals[ArgSpan(s, 1)] + mon.vals[ArgSpan(s, 2)]

RECURSIVE NamesIn(_)
RECURSIVE NamesInAll(_)
\* the locals named in e
NamesIn(e) ==
    CASE e.tag = "Number" -> {}
      [] e.tag = "Local" -> {e.name}
      [] e.tag \in {"UnOp", "Enclosed", "Stmt", "Return"} -> NamesIn(e.expr)
      [] e.tag \in {"BinOp", "Assign"} -> NamesIn(e.lhs) \cup NamesIn(e.rhs)
      [] e.tag = "Init" -> NamesIn(e.name) \cup NamesIn(e.value)
      [] e.tag = "FnCall" -> NamesInAll(e.args)
      [] e.tag = "Block" -> NamesInAll(e.exprs)
      [] e.tag = "Loop" -> NamesInAll(e.body)
      [] e.tag = "IfElse" ->
            NamesIn(e.cond) \cup NamesInAll(e.if_body)
            \cup (IF e.else_body = <<>> THEN {} ELSE NamesInAll(e.else_body[1]))
NamesInAll(es) == IF es = <<>> THEN {} ELSE NamesIn(Head(es)) \cup NamesInAll(Tail(es))

RECURSIVE DeclsIn(_)
RECURSIVE DeclsInAll(_)
\* the locals e declares with let, in the order the generator meets them
DeclsIn(e) ==
    CASE e.tag \in {"Number", "Local"} -> <<>>
      [] e.tag \in {"UnOp", "Enclosed", "Stmt", "Return"} -> DeclsIn(e.expr)
      [] e.tag \in {"BinOp", "Assign"} -> DeclsIn(e.lhs) \o DeclsIn(e.rhs)
      [] e.tag = "Init" ->
            (IF e.name.tag = "Local" THEN << e.name.name >> ELSE <<>>) \o DeclsIn(e.value)
      [] e.tag = "FnCall" -> DeclsInAll(e.args)
      [] e.tag = "Block" -> DeclsInAll(e.exprs)
      [] e.tag = "Loop" -> DeclsInAll(e.body)
      [] e.tag = "IfElse" ->
            DeclsIn(e.cond) \o DeclsInAll(e.if_body)
            \o (IF e.else_body = <<>> THEN <<>> ELSE DeclsInAll(e.else_body[1]))
DeclsInAll(es) == IF es = <<>> THEN <<>> ELSE DeclsIn(Head(es)) \o DeclsInAll(Tail(es))

\* the first declaration of its name
FirstDecl(d, i) == \A j \in 1..(i - 1) : d[j] # d[i]
ArgNames(f) == {f.args[i] : i \in 1..Len(f.args)}

\* C2: in every function of every translation unit, locals declared in sequence
\* have strictly increasing frame offsets in declaration order, and no two
\* distinct names of the function (parameters or locals) share a frame offset.
C2_LocalsGetDistinctIncreasingOffsets ==
    \A k \in 1..Len(fnlog) :
        fnlog[k].ok =>
            LET f == ast[k]
                loc == fnlog[k].local
                d == DeclsInAll(f.body)
                names == ArgNames(f) \cup NamesInAll(f.body)
            IN  /\ names \subseteq DOMAIN loc
                /\ \A i, j \in 1..Len(d) :
                       (i < j /\ FirstDecl(d, i) /\ FirstDecl(d, j)) => loc[d[i]] < loc[d[j]]
                /\ \A n1, n2 \in names : n1 # n2 => loc[n1] # loc[n2]

\* C3: when the code of a value expression (all of whose sub-expressions are
\* value expressions) has run, the stack is exactly one word deeper than when
\* it started.
C3_ExpressionPushesOneWord ==
    \A s \in DOMAIN mon.open :
        (s.pure /\ Running /\ cpu.pc = s.end /\ OpenHere(s))
        => cpu.regs.rsp = mon.open[s].rsp - 8

\* a call with two arguments, one of them a call, has run and left its word
C3_Witness ==
    \E s \in DOMAIN mon.open :
        /\ s.pure /\ s.tag = "FnCall" /\ s.aux = 2
        /\ \E t \in Spans : t.tag = "FnCall" /\ t.start = s.start /\ t.end < s.end
        /\ Running /\ cpu.pc = s.end /\ OpenHere(s)
        /\ cpu.regs.rsp = mon.open[s].rsp - 8

\* C4: when the code of a statement-level construct has run, the stack is
\* exactly one word deeper than when it started, whatever the number of
\* statements of a block; and the stack is as deep at a loop's label on every
\* iteration as on the first.
C4_StatementLeavesOneWord ==
    /\ \A s \in DOMAIN mon.open :
         (s.tag \in StmtTags /\ Running /\ cpu.pc = s.end /\ OpenHere(s))
         => cpu.regs.rsp = mon.open[s].rsp - 8
    /\ \A s \in DOMAIN mon.open :
         (s.tag = "Loop" /\ Running /\ cpu.pc = s.start /\ OpenHere(s))
         => cpu.regs.rsp = mon.open[s].rsp

GeneratedLabels ==
    {LabelName(id, sfx) : id \in 0..gen.label_id, sfx \in {"loop", "else", "end"}}
LabelLines ==
    {i \in 1..Len(gen.writer) : gen.writer[i].op = "label" /\ gen.writer[i].d \in GeneratedLabels}
JumpLines == {i \in 1..Len(gen.writer) : gen.writer[i].op \in {"je", "jmp"}}

\* C5: no two label definitions one generator emitted have the same name, the
\* label counter values were handed out in strictly increasing order, and every
\* jump emitted targets a label defined exactly once.
C5_LabelsAreUnique ==
    /\ \A i, j \in LabelLines : i # j => gen.writer[i].d # gen.writer[j].d
    /\ \A i, j \in 1..Len(gen.handed) : i < j => gen.handed[i] < gen.handed[j]
    /\ \A i \in 1..Len(gen.handed) : gen.handed[i] < gen.label_id
    /\ \A i \in JumpLines : Cardinality(LabelDefs(gen.writer, gen.writer[i].d)) = 1

\* two functions with nested loops and an if/else have been generated
C5_Witness ==
    /\ gen.pos = "done" /\ Len(fnlog) = 2
    /\ Cardinality(LabelLines) = 6
    /\ Len(gen.handed) = 6
    /\ Cardinality(JumpLines) = 6

LegacyTree == legacy.tree
LegacyRan == mode = "legacy" /\ Halted

\* C6: for every arithmetic expression over + - * / unary minus and parentheses
\* whose reference value is defined (no division by zero), the legacy compiler
\* accepts the source text and the sofa generator the expression, the emitted
\* program does not fault, and it exits with the reference value (precedence,
\* left associativity, division truncated towards zero) in rax and the stack as
\* it found it.
C6_ArithmeticMatchesReference ==
    /\ (mode = "legacy" /\ LegacyTree \in ArithTrees /\ RefEval(LegacyTree).ok)
       => /\ legacy.pos # "panicked"
          /\ cpu.status \notin {"fault", "overflow"}
          /\ Halted => /\ cpu.regs.rax = RefEval(LegacyTree).v
                       /\ cpu.regs.rsp = StackTop + 8
    /\ (mode = "sofa" /\ ast \in ArithProgs /\ RefEval(TreeOf(ast)).ok)
       => /\ gen.ok
          /\ cpu.status \notin {"fault", "overflow"}
          /\ Halted => /\ cpu.regs.rax = RefEval(TreeOf(ast)).v
                       /\ cpu.regs.rsp = StackTop + 8

\* the legacy compiler's program for -3/2 has run and left -1, where flooring
\* would have left -2
C6_Witness ==
    /\ LegacyRan
    /\ LegacyTree = T("/", Minus(Lit(MaxLit + 1)), Lit(2))
    /\ legacy.source = <<"-">> \o Decimal(MaxLit + 1) \o <<"/", "2">>
    /\ cpu.regs.rax = RefQuot(-(MaxLit + 1), 2)
    /\ cpu.regs.rax = -((MaxLit + 1) \div 2)

\* what a comparison operator of the sofa language means
Holds(op, a, b) ==
    CASE op = "Eq" -> a = b
      [] op = "Neq" -> a # b
      [] op = "Le" -> a < b
      [] op = "LeEq" -> a <= b
      [] op = "Ge" -> a > b
      [] op = "GeEq" -> a >= b
Mirror(op) ==
    CASE op = "Ge" -> "Le" [] op = "GeEq" -> "LeEq" [] op = ">" -> "<" [] op = ">=" -> "<="
      [] OTHER -> op
\* the contents of rax and rdi at cmp rax, rdi for lhs < rhs and its like
CmpRegs(lhs, rhs) == << [rax |-> lhs, rdi |-> rhs] >>
CmpExpr == ast[1].body[1].expr

\* C7: every comparison leaves 1 where it holds and 0 where it does not, what
\* movzb leaves to be pushed is always 0 or 1, and a > b (a >= b) computes the
\* result of b < a (b <= a) from the same contents of rax and rdi at the cmp;
\* in both compilers.
C7_ComparisonsYieldBit ==
    /\ (cpu.status \in {"running", "halted"} /\ mon.prev \in 1..Len(Code)
          /\ Code[mon.prev].op = "movzb")
       => cpu.regs.rax \in {0, 1}
    /\ (mode = "sofa" /\ ast \in CmpProgs /\ Halted)
       => LET op == CmpExpr.op
              a == CmpExpr.lhs.value
              b == CmpExpr.rhs.value
          IN  /\ cpu.regs.rax = (IF Holds(op, a, b) THEN 1 ELSE 0)
              /\ op \in {"Ge", "GeEq"}
                   => /\ Holds(op, a, b) = Holds(Mirror(op), b, a)
                      /\ mon.cmp = CmpRegs(b, a)
              /\ op \notin {"Ge", "GeEq"} => mon.cmp = CmpRegs(a, b)
    /\ (mode = "legacy" /\ LegacyTree \in CmpTrees /\ Halted)
       => LET op == LegacyTree.op
              a == RefEval(LegacyTree.l[1]).v
              b == RefEval(LegacyTree.r[1]).v
          IN  /\ cpu.regs.rax = RefEval(LegacyTree).v
              /\ cpu.regs.rax \in {0, 1}
              /\ op \in {">", ">="}
                   => /\ RefEval(LegacyTree).v = RefEval(T(Mirror(op), Lit(b), Lit(a))).v
                      /\ mon.cmp = CmpRegs(b, a)
              /\ op \notin {">", ">="} => mon.cmp = CmpRegs(a, b)

\* 2 > -1 has run in the sofa compiler's output: cmp saw rax = -1, rdi = 2
C7_Witness ==
    /\ mode = "sofa" /\ Halted
    /\ ast = CmpProg("Ge", 2, -1)
    /\ mon.cmp = CmpRegs(-1, 2)
    /\ cpu.regs.rax = 1

\* the layout of the code of the IfElse s:
\*   cond / pop rax / cmp rax, 0 / je / if_body / [jmp end / else: / else_body] / end:
CondEnd(s) == InnerEnd(s.start, s.end - 1)
JeLine(s) == CondEnd(s) + 2
IfStart(s) == CondEnd(s) + 3
IfEnd(s) ==
    IF s.aux = 0 THEN s.end - 1
    ELSE MaxOf({t.end : t \in {t \in Spans : t.tag = "Block" /\ t.start = IfStart(s)
                                               /\ t.end <= s.end - 3}})
ElseLabel(s) == IfEnd(s) + 1
ElseStart(s) == IfEnd(s) + 2
EndLabel(s) == s.end - 1
IfElseSpans == {s \in Spans : s.tag = "IfElse"}
CondValue(s) == mon.condv[JeLine(s)]

\* C8: the true branch runs only after a nonzero condition and the else
\* branch only after a zero one; right after the je, control is at the true
\* branch if the condition was nonzero, else at the else label or, without an
\* else branch, at the end label that follows the true branch; and where the
\* IfElse runs once, no line of the branch not taken is ever executed.
C8_IfElseSelectsBranch ==
    \A s \in IfElseSpans :
        /\ gen.writer[JeLine(s)].op = "je"
        /\ gen.writer[EndLabel(s)].op = "label"
        /\ (Running /\ cpu.pc \in IfStart(s)..(IfEnd(s) - 1))
             => JeLine(s) \in DOMAIN mon.condv /\ CondValue(s) # 0
        /\ (Running /\ s.aux = 1 /\ cpu.pc \in ElseStart(s)..(EndLabel(s) - 1))
             => JeLine(s) \in DOMAIN mon.condv /\ CondValue(s) = 0
        /\ (Running /\ mon.prev = JeLine(s))
             => cpu.pc = (IF CondValue(s) # 0 THEN IfStart(s)
                          ELSE IF s.aux = 1 THEN ElseLabel(s) ELSE EndLabel(s))
        /\ (mode = "sofa" /\ ast \in IfProgs /\ JeLine(s) \in DOMAIN mon.condv)
             => /\ CondValue(s) = 0
                  => mon.executed \cap (IfStart(s)..IfEnd(s)) \subseteq {EndLabel(s)}
                /\ (CondValue(s) # 0 /\ s.aux = 1)
                  => mon.executed \cap (ElseLabel(s)..(EndLabel(s) - 1)) = {}
                /\ (Halted /\ \E c \in Conds : ast = IfReturnProg(c))
                  => cpu.regs.rax = (IF CondValue(s) = 0 THEN 2 ELSE 1)

\* a zero condition without an else branch has just jumped over the true
\* branch, and a zero condition with one has entered the else branch
C8_Witness ==
    /\ \E s \in IfElseSpans :
         /\ s.aux = 0 /\ Running /\ mon.prev = JeLine(s) /\ CondValue(s) = 0
         /\ IfStart(s) < IfEnd(s)
         /\ cpu.pc = EndLabel(s)
    /\ mode = "sofa" /\ ast \in IfProgs

RetSpans == {s \in Spans : s.tag = "Return"}
\* the code of a Return is e / pop rax / leave / ret
RetLine(s) == s.end - 1
RetExprs(s) == {e \in Spans : e.start = s.start /\ e.end = s.end - 3 /\ e.tag # "Return"}
\* the loops whose body is a single Return, and their back-edge jmp
ReturnLoops ==
    {s \in Spans : s.tag = "Loop" /\ \E t \in RetSpans : t.start = s.start + 1
                                                      /\ t.end = s.end - 3}
BackEdge(s) == s.end - 3
RetOf(prog) == (CHOOSE c \in RetCases : c.prog = prog).ret

\* every ret of a Return leaves the value of its expression in rax and gives
\* the caller its rsp and rbp back; the jmp of loop { return e; } never runs
ReturnSafe ==
    /\ mon.retok
    /\ \A s \in RetSpans :
         (cpu.status \in {"running", "halted"} /\ mon.prev = RetLine(s))
         => /\ RetExprs(s) # {}
            /\ \A e \in RetExprs(s) : e \in DOMAIN mon.vals /\ cpu.regs.rax = mon.vals[e]
    /\ \A s \in ReturnLoops : BackEdge(s) \notin mon.executed
\* main has returned its value to the runtime, whose stack and frame are restored
ReturnDone ==
    /\ Halted
    /\ ast \in RetProgs
    /\ cpu.regs.rax = RetOf(ast)
    /\ cpu.regs.rsp = StackTop + 8
    /\ cpu.regs.rbp = CallerRbp

\* C9: a Return nested in loops, blocks and if branches always reaches its
\* function's ret with the value of its expression in rax and the caller's
\* stack pointer and frame pointer restored, whatever the nesting left on the
\* stack, and loop { return n; } never takes its back-edge.
C9_NestedReturnReachesRet ==
    /\ []ReturnSafe
    /\ (ast \in RetProgs /\ Running) ~> ReturnDone

\* pick(0) has returned 2 out of its nested loops to main, which returned it
\* out of its own
C9_Witness ==
    /\ ReturnDone
    /\ Len(ast) = 2 /\ ast[1].name = "pick"
    /\ cpu.regs.rax = 2
    /\ ReturnLoops # {}

RECURSIVE FirstUnrecognised(_, _, _)
\* the index (from 1) of the first character from the k-th on that is outside
\* a line comment and is neither whitespace, an identifier character, a digit
\* nor punctuation; 0 if there is none.  A line comment runs from // to the
\* end of the line.
FirstUnrecognised(input, k, commented) ==
    IF k > Len(input) THEN 0
    ELSE IF commented
         THEN FirstUnrecognised(input, k + 1, input[k] # "\n")
    ELSE IF input[k] = "/" /\ k < Len(input) /\ input[k + 1] = "/"
         THEN FirstUnrecognised(input, k + 2, TRUE)
    ELSE IF \/ input[k] \in AsciiWhitespace
            \/ is_id_body(input[k])
            \/ input[k] \in DOMAIN Punctuation \cup {"/"}
         THEN FirstUnrecognised(input, k + 1, FALSE)
    ELSE k
ByteOffset(input, k) == ByteLen(SubSeq(input, 1, k - 1))

\* C10: tokenize returns a token sequence only for inputs without an
\* unrecognised character outside line comments, and when it aborts, the error
\* names the first such character and its byte offset in the input.
C10_UnrecognisedCharacterAborts ==
    LET bad == FirstUnrecognised(lexer.input, 1, FALSE)
    IN  /\ lexer.status = "done" => bad = 0
        /\ lexer.status = "panicked"
             => /\ bad # 0
                /\ lexer.err.ch = lexer.input[bad]
                /\ lexer.err.at = ByteOffset(lexer.input, bad)

(***************************************************************************)
(* C11: when gen returns normally, all the text it generated has been      *)
(* delivered to the sink; nothing of it remains only in the BufWriter.     *)
(***************************************************************************)
C11_GenDeliversTextToSink ==
    (mode = "sofa" /\ gen.pos = "done")
        => /\ gen.sunk = Len(gen.writer)
           /\ gen.buf = 0

(***************************************************************************)
(* C12: when generation aborts, the sink has received no text of that run, *)
(* however much text was generated before the failing construct, and also  *)
(* once the generator has been dropped by the unwinding panic.             *)
(***************************************************************************)
C12_AbortLeavesSinkEmpty ==
    (mode = "sofa" /\ ~gen.ok) => Sink = <<>>

\* the lines of the call s that move an argument into its register: mov reg, rax
\* outside the code of the calls among its arguments
ArgMoves(s) ==
    {k \in s.start..(s.end - 1) :
        /\ gen.writer[k].op = "mov" /\ gen.writer[k].s = "rax"
        /\ \E r \in 1..Len(ARG_REGS) : gen.writer[k].d = ARG_REGS[r]
        /\ ~\E t \in Spans : /\ t.tag = "FnCall" /\ t # s
                              /\ s.start <= t.start /\ t.end <= s.end
                              /\ k \in t.start..(t.end - 1)}

(***************************************************************************)
(* C13: a FnCall with more than six arguments makes generation abort, so   *)
(* no call instruction is emitted for it; and every call that is generated *)
(* has evaluated and placed each of its arguments.                         *)
(***************************************************************************)
C13_TooManyArgumentsAbort ==
    \A s \in Spans :
        s.tag = "FnCall"
        => /\ s.aux <= Len(ARG_REGS)
           /\ Cardinality(ArgMoves(s)) = s.aux

(***************************************************************************)
(* C14: for every function definition with parameters p1..pn, whatever was *)
(* generated before it, the code after the prologue stores the i-th        *)
(* argument register at rbp - 8*i and the symbol table maps pi to 8*i, so  *)
(* that reading pi yields the caller's i-th argument.                      *)
(***************************************************************************)
C14_ParametersBoundToFrameSlots ==
    /\ \A k \in 1..Len(fnlog) :
         fnlog[k].ok
         => LET f == ast[k]
                L == LabelIndex(gen.writer, f.name)
            IN  \A i \in 1..Len(f.args) :
                    /\ f.args[i] \in DOMAIN fnlog[k].local
                    /\ fnlog[k].local[f.args[i]] = 8 * i
                    /\ i <= Len(ARG_REGS)
                    /\ gen.writer[L + 3 + 2 * i] = Ins("sub_imm", "rax", "", 8)
                    /\ gen.writer[L + 4 + 2 * i] = Ins("store", "rax", ARG_REGS[i], 0)
    /\ (Halted /\ mode = "sofa" /\ ast \in ManyArgProgs /\ ast[1] = FnLast)
         => cpu.regs.rax = 7

RECURSIVE Unwrap(_)
RECURSIVE UnwrapAll(_)
\* e without its Enclosed nodes
Unwrap(e) ==
    CASE e.tag \in {"Number", "Local"} -> e
      [] e.tag = "Enclosed" -> Unwrap(e.expr)
      [] e.tag \in {"UnOp", "Stmt", "Return"} -> [e EXCEPT !.expr = Unwrap(@)]
      [] e.tag \in {"BinOp", "Assign"} -> [e EXCEPT !.lhs = Unwrap(@), !.rhs = Unwrap(@)]
      [] e.tag = "Init" -> [e EXCEPT !.name = Unwrap(@), !.value = Unwrap(@)]
      [] e.tag = "FnCall" -> [e EXCEPT !.args = UnwrapAll(@)]
      [] e.tag = "Block" -> [e EXCEPT !.exprs = UnwrapAll(@)]
      [] e.tag = "Loop" -> [e EXCEPT !.body = UnwrapAll(@)]
      [] e.tag = "IfElse" ->
            [e EXCEPT !.cond = Unwrap(@), !.if_body = UnwrapAll(@),
                      !.else_body = IF @ = <<>> THEN <<>> ELSE << UnwrapAll(@[1]) >>]
UnwrapAll(es) == [i \in 1..Len(es) |-> Unwrap(es[i])]
\* the translation unit without its Enclosed nodes
Unwrapped(definitions) ==
    [k \in 1..Len(definitions) |->
        [definitions[k] EXCEPT !.body = UnwrapAll(@)]]

(***************************************************************************)
(* C15: Enclosed is a no-op in every position: a translation unit and the  *)
(* same unit without its parentheses generate the same instructions and    *)
(* end the same way, by success or by abort.                               *)
(***************************************************************************)
C15_EnclosedIsNoOp ==
    (mode = "sofa" /\ gen.pos \in {"done", "panicked"} /\ Unwrapped(ast) # ast)
        => \E plain \in {gen_ast(Unwrapped(ast))} :
               /\ plain.ok = gen.ok
               /\ plain.writer = gen.writer

\* the body of f starts with an assignment to a local
AssignsFirst(f) ==
    /\ f.body # <<>> /\ f.body[1].tag = "Stmt"
    /\ f.body[1].expr.tag = "Assign" /\ f.body[1].expr.lhs.tag = "Local"

RECURSIVE Bound(_, _, _)
\* the symbol table once gen_fn has bound the parameters args[i..]
Bound(table, args, i) ==
    IF i > Min(Len(args), Len(ARG_REGS)) THEN table
    ELSE Bound(MapInsert(table, args[i], 8 * i), args, i + 1)

(***************************************************************************)
(* C16: a name with no symbol-table entry that first occurs as the target  *)
(* of an assignment gets the offset (entries so far + 1) * 8, as a         *)
(* declaration would give it; generation continues, and the later          *)
(* occurrences of the name resolve to that offset.                         *)
(***************************************************************************)
C16_AssignmentEstablishesOffset ==
    /\ \A k \in 1..Len(fnlog) :
         LET f == ast[k]
             table == Bound(IF k = 1 THEN NewGenerater.local ELSE fnlog[k - 1].local,
                            f.args, 1)
             name == f.body[1].expr.lhs.name
         IN  (ast \in AssignFirstProgs /\ AssignsFirst(f) /\ name \notin DOMAIN table)
             => /\ fnlog[k].ok
                /\ name \in DOMAIN fnlog[k].local
                /\ fnlog[k].local[name] = (MapLen(table) + 1) * 8
    /\ (Halted /\ mode = "sofa" /\ ast \in AssignFirstProgs /\ Len(ast) = 1)
         => cpu.regs.rax = 1

(***************************************************************************)
(* C17: in every function, every frame offset used for a parameter or a    *)
(* local is at most the frame size its prologue reserves, so the operand   *)
(* stack never overwrites a local: a local read yields the value last      *)
(* stored to it.                                                           *)
(***************************************************************************)
C17_LocalsLieInsideFrame ==
    /\ \A k \in 1..Len(fnlog) :
         fnlog[k].ok
         => \A name \in (NamesInAll(ast[k].body) \cup ArgNames(ast[k]))
                         \cap DOMAIN fnlog[k].local :
                fnlog[k].local[name] <= FrameSize(ast[k])
    /\ (Halted /\ mode = "sofa" /\ ast \in FrameProgs)
         => cpu.regs.rax = Len(ast[1].args) + 1

\* the iteration of the scan loop that is due moves the cursor forward
ScanAdvances ==
    (mode = "legacy" /\ legacy.pos = "lex" /\ legacy.cur < Len(legacy.source))
        => ScanOne(legacy.source, [tokens |-> legacy.tokens, cur |-> legacy.cur]).cur
               > legacy.cur

(***************************************************************************)
(* C18: TokenList::new terminates on every input: every iteration of its   *)
(* scan loop advances the cursor, whatever the current character is, and   *)
(* the loop is left, with a token list that ends with EOF.                 *)
(***************************************************************************)
C18_LegacyTokenizerTerminates ==
    /\ []ScanAdvances
    /\ <>(legacy.pos = "parse" /\ legacy.tokens[Len(legacy.tokens)] = EOF)

\* tokenize is about to call cursor.token()
TokenDue == mode = "lexer" /\ lexer.status = "run" /\ ~is_eof(lexer.input, lexer.cursor)

\* the call of token() that is due aborts or takes at least one character
TokenConsumes ==
    TokenDue => \E r \in {token(lexer.input, lexer.cursor)} :
                    ~r.ok \/ r.cursor.i > lexer.cursor.i

\* token() is called only while unread input remains
CalledOnUnread == TokenDue => lexer.cursor.i < Len(lexer.input)

\* no Whitespace token is collected
NoWhitespaceKept ==
    \A k \in 1..Len(lexer.tokens) : lexer.tokens[k].kind # "Whitespace"

(***************************************************************************)
(* C19: tokenize terminates on every input: every call of Cursor::token    *)
(* aborts or consumes at least one character, token() is called only while *)
(* unread input remains, and no Whitespace token is returned.              *)
(***************************************************************************)
C19_TokenizeTerminates ==
    /\ []TokenConsumes
    /\ []CalledOnUnread
    /\ []NoWhitespaceKept
    /\ <>(mode = "lexer" /\ lexer.status \in {"done", "panicked"})

\* an identifier, whitespace and a number were read and two tokens returned
C19_Witness ==
    /\ mode = "lexer" /\ lexer.status = "done"
    /\ Len(lexer.input) = 3 /\ lexer.input[2] \in AsciiWhitespace
    /\ lexer.cursor.i = 3
    /\ Len(lexer.tokens) = 2
    /\ lexer.tokens[1].kind = "Ident" /\ lexer.tokens[2].kind = "Number"

====
